---- MODULE Spec2Model ----
(***************************************************************************)
(* Campus entity resolution pipeline: entity resolver, multi-modal fusion, *)
(* timeline generator and predictive monitor.                              *)
(*                                                                         *)
(* Conventions.  Confidences and similarities are exact integers in        *)
(* thousandths (0.95 is 950); timestamps are whole minutes; Python's None  *)
(* is the string NONE.                                                     *)
(***************************************************************************)
EXTENDS Integers, Sequences, FiniteSets, TLC

VARIABLES
    \* EntityResolver
    data,               \* the input tables handed to resolve_entities
    entity_graph,       \* self.entity_graph
    resolved_entities,  \* self.resolved_entities (index i is unified_entity_i)
    entity_clusters,    \* the clusters of the last resolve_entities call
    resolve_calls,      \* number of resolve_entities calls made
    lookup,             \* the last get_entity_by_identifier call and its result
    \* MultiModalFusion
    entity_data,        \* the per-source rows of one entity handed to fuse_entity_data
    face_embeddings,    \* the face_embeddings argument
    event_clusters,     \* the temporal clusters of the last fuse_entity_data call
    fused_records,      \* the list the last fuse_entity_data call returned
    fuse_calls,         \* number of fuse_entity_data calls made
    \* TimelineGenerator
    caller_records,     \* the caller's list of fusion records handed to generate_timeline
    time_range,         \* the start_time and end_time arguments
    event_groups,       \* the groups _merge_related_events formed in the last call
    timeline,           \* the list the last generate_timeline call returned
    timeline_calls,     \* number of generate_timeline calls made
    summary,            \* the gaps of the last TimelineSummary made from the timeline
    \* PredictiveMonitor
    monitor,            \* the fields of the PredictiveMonitor object
    model_files,        \* the model files on disk, by path
    monitor_result,     \* what the last call on the monitor returned
    swap_succeeded,     \* TRUE once a train_predictive_models or load_models call succeeded
    monitor_calls,      \* number of calls made on the monitor
    \* calls in progress on one monitor and one resolver, from several threads
    pc,                 \* the statement each thread is at
    swap_frame,         \* the train_predictive_models or load_models call in progress
    read_frame,         \* the predict_missing_data or detect_anomalies call in progress
    resolve_frame,      \* the resolve_entities call in progress
    find_frame          \* the get_entity_by_identifier call in progress

resolverVars == <<data, entity_graph, resolved_entities, entity_clusters, resolve_calls, lookup>>
fusionVars == <<entity_data, face_embeddings, event_clusters, fused_records, fuse_calls>>
timelineVars ==
    <<caller_records, time_range, event_groups, timeline, timeline_calls, summary>>
monitorVars == <<monitor, model_files, monitor_result, swap_succeeded, monitor_calls>>
threadVars == <<pc, swap_frame, read_frame, resolve_frame, find_frame>>
notResolver == <<fusionVars, timelineVars, monitorVars, threadVars>>
notFusion == <<resolverVars, timelineVars, monitorVars, threadVars>>
notTimeline == <<resolverVars, fusionVars, monitorVars, threadVars>>
notMonitor == <<resolverVars, fusionVars, timelineVars, threadVars>>
vars == <<resolverVars, fusionVars, timelineVars, monitorVars, threadVars>>

NONE == "NONE"

----------------------------------------------------------------------------
\* Generic helpers

Min2(a, b) == IF a <= b THEN a ELSE b
Max2(a, b) == IF a >= b THEN a ELSE b
SetMax(S) == CHOOSE x \in S : \A y \in S : y <= x
SetMin(S) == CHOOSE x \in S : \A y \in S : x <= y
Range(s) == {s[i] : i \in 1..Len(s)}
AbsDiff(a, b) == IF a >= b THEN a - b ELSE b - a

RECURSIVE GCD(_, _)
GCD(a, b) == IF b = 0 THEN a ELSE GCD(b, a % b)

\* An exact non-negative fraction num / den in lowest terms
Frac(num, den) == LET g == GCD(num, den) IN [num |-> num \div g, den |-> den \div g]
FracLE(f, g) == f.num * g.den <= g.num * f.den
FracLT(f, g) == f.num * g.den < g.num * f.den
Thousandths(k) == Frac(k, 1)

RECURSIVE SetSum(_)
SetSum(S) == IF S = {} THEN 0 ELSE LET x == CHOOSE y \in S : TRUE IN x + SetSum(S \ {x})

RECURSIVE SeqSum(_)
SeqSum(s) == IF s = <<>> THEN 0 ELSE Head(s) + SeqSum(Tail(s))

\* The rows of pool at the positions of idx, in pool order
RECURSIVE SelectAt(_, _, _)
SelectAt(pool, idx, i) ==
    IF i > Len(pool) THEN <<>>
    ELSE (IF i \in idx THEN <<pool[i]>> ELSE <<>>) \o SelectAt(pool, idx, i + 1)

\* Every table of at most max rows taken from pool
Tables(pool, max) ==
    {SelectAt(pool, idx, 1) : idx \in {T \in SUBSET (1..Len(pool)) : Cardinality(T) <= max}}

\* pandas Series.unique(): the distinct values in order of first appearance
RECURSIVE Unique(_)
Unique(s) ==
    IF s = <<>> THEN <<>>
    ELSE LET init == Unique(SubSeq(s, 1, Len(s) - 1))
             last == s[Len(s)]
         IN  IF last \in Range(init) THEN init ELSE Append(init, last)

Column(table, field) == [i \in 1..Len(table) |-> table[i][field]]

----------------------------------------------------------------------------
\* Bounds of the resolver inputs

MaxProfiles == 3
MaxSwipes == 2
MaxWifi == 1
MaxCctv == 1
MaxNotes == 1
MaxResolveCalls == 2

\* Configuration (thousandths)
name_similarity_threshold == 850
fuzzy_match_threshold == 800
time_window_minutes == 10
RecordLimit == 1000

ProfilePool == <<
    [entity_id |-> "E1", name |-> "Neha Mehta", email |-> "neha@campus.edu",
     student_id |-> "S1", staff_id |-> NONE, card_id |-> "C1",
     device_hash |-> "D1", face_id |-> "F1"],
    [entity_id |-> "E2", name |-> " neha  mehta", email |-> "neha1@campus.edu",
     student_id |-> "S2", staff_id |-> NONE, card_id |-> "C2",
     device_hash |-> "D2", face_id |-> "F2"],
    [entity_id |-> "E3", name |-> "Arun Rao", email |-> "arun@campus.edu",
     student_id |-> NONE, staff_id |-> "T1", card_id |-> "C1",
     device_hash |-> "D3", face_id |-> NONE],
    [entity_id |-> "E4", name |-> "Neha Mehra", email |-> "neha@campus.edu",
     student_id |-> "S4", staff_id |-> NONE, card_id |-> "C4",
     device_hash |-> "D4", face_id |-> "F4"] >>

SwipePool == <<
    [card_id |-> "C1", location_id |-> "LAB_101", timestamp |-> 540],
    [card_id |-> "C1", location_id |-> "LIB_ENT", timestamp |-> 600],
    [card_id |-> "C9", location_id |-> "LAB_101", timestamp |-> 545] >>

WifiPool == <<
    [device_hash |-> "D4", ap_id |-> "AP_LAB_1", timestamp |-> 542] >>

CctvPool == <<
    [face_id |-> "F2", location_id |-> "LAB_101", timestamp |-> 541],
    [face_id |-> NONE, location_id |-> "GYM", timestamp |-> 905] >>

NotePool == <<
    [entity_id |-> "E1", category |-> "helpdesk", timestamp |-> 543] >>

DataSets ==
    [profiles : Tables(ProfilePool, MaxProfiles),
     card_swipes : Tables(SwipePool, MaxSwipes),
     wifi_logs : Tables(WifiPool, MaxWifi),
     cctv_frames : Tables(CctvPool, MaxCctv),
     notes : Tables(NotePool, MaxNotes)]

----------------------------------------------------------------------------
\* EntityResolver: record extraction

\* An entity record is an open dictionary in the source; here every key is
\* present and an absent key holds NONE, {} or the empty string (the
\* default the source's record.get(key, '') supplies for name and email).
BlankRecord ==
    [record_id |-> NONE, dataset |-> NONE, entity_id |-> NONE, name |-> "",
     email |-> "", student_id |-> NONE, staff_id |-> NONE, card_id |-> NONE,
     device_hash |-> NONE, face_id |-> NONE, times |-> {}, locations |-> {}]

RowsOf(table, field, key) == SelectSeq(table, LAMBDA row : row[field] = key)

ProfileRecord(row) ==
    [BlankRecord EXCEPT !.record_id = "profile_" \o row.entity_id,
                        !.dataset = "profiles",
                        !.entity_id = row.entity_id,
                        !.name = row.name,
                        !.email = row.email,
                        !.student_id = row.student_id,
                        !.staff_id = row.staff_id,
                        !.card_id = row.card_id,
                        !.device_hash = row.device_hash,
                        !.face_id = row.face_id]

\* first_seen and last_seen (first_note, last_note) of the rows of one key
SeenTimes(rows) ==
    LET ts == Range(Column(rows, "timestamp")) IN {SetMin(ts), SetMax(ts)}

ExtractFromCardSwipes(df) ==
    LET keys == Unique(Column(df, "card_id"))
    IN  [i \in 1..Len(keys) |->
            LET rows == RowsOf(df, "card_id", keys[i])
            IN  [BlankRecord EXCEPT !.record_id = "card_" \o keys[i],
                                    !.dataset = "card_swipes",
                                    !.card_id = keys[i],
                                    !.times = SeenTimes(rows),
                                    !.locations = Range(Column(rows, "location_id"))]]

ExtractFromWifiLogs(df) ==
    LET keys == Unique(Column(df, "device_hash"))
    IN  [i \in 1..Len(keys) |->
            LET rows == RowsOf(df, "device_hash", keys[i])
            IN  [BlankRecord EXCEPT !.record_id = "wifi_" \o keys[i],
                                    !.dataset = "wifi_logs",
                                    !.device_hash = keys[i],
                                    !.times = SeenTimes(rows),
                                    !.locations = Range(Column(rows, "ap_id"))]]

ExtractFromCctvFrames(df) ==
    LET keys == Unique(Column(SelectSeq(df, LAMBDA row : row.face_id # NONE), "face_id"))
    IN  [i \in 1..Len(keys) |->
            LET rows == RowsOf(df, "face_id", keys[i])
            IN  [BlankRecord EXCEPT !.record_id = "face_" \o keys[i],
                                    !.dataset = "cctv_frames",
                                    !.face_id = keys[i],
                                    !.times = SeenTimes(rows),
                                    !.locations = Range(Column(rows, "location_id"))]]

ExtractFromNotes(df) ==
    LET keys == Unique(Column(df, "entity_id"))
    IN  [i \in 1..Len(keys) |->
            LET rows == RowsOf(df, "entity_id", keys[i])
            IN  [BlankRecord EXCEPT !.record_id = "notes_" \o keys[i],
                                    !.dataset = "notes",
                                    !.entity_id = keys[i],
                                    !.times = SeenTimes(rows)]]

ExtractEntityRecords(d) ==
    [i \in 1..Len(d.profiles) |-> ProfileRecord(d.profiles[i])]
        \o ExtractFromCardSwipes(d.card_swipes)
        \o ExtractFromWifiLogs(d.wifi_logs)
        \o ExtractFromCctvFrames(d.cctv_frames)
        \o ExtractFromNotes(d.notes)

----------------------------------------------------------------------------
\* EntityResolver: pairwise comparison

\* str.strip().lower() on the names and e-mail addresses of the pools
StripLower(s) ==
    CASE s = "Neha Mehta" -> "neha mehta"
      [] s = " neha  mehta" -> "neha  mehta"
      [] s = "Arun Rao" -> "arun rao"
      [] s = "Neha Mehra" -> "neha mehra"
      [] OTHER -> s

\* fuzzywuzzy's token processing: split on whitespace, sort, join by one space
TokenSorted(s) ==
    CASE s = "neha  mehta" -> "mehta neha"
      [] s = "neha mehta" -> "mehta neha"
      [] s = "arun rao" -> "arun rao"
      [] s = "neha mehra" -> "mehra neha"
      [] OTHER -> s

\* fuzz.ratio in percent: 100 * 2M / T over the matching blocks
FuzzRatio(a, b) ==
    LET p == {a, b} IN
    CASE a = b -> 100
      [] p = {"neha mehta", "neha  mehta"} -> 95
      [] p = {"neha mehta", "neha mehra"} -> 90
      [] p = {"neha  mehta", "neha mehra"} -> 86
      [] p = {"mehta neha", "mehra neha"} -> 90
      [] p = {"neha mehta", "arun rao"} -> 22
      [] p = {"neha  mehta", "arun rao"} -> 21
      [] p = {"neha mehra", "arun rao"} -> 44
      [] p = {"mehta neha", "arun rao"} -> 33
      [] p = {"mehra neha", "arun rao"} -> 22
      [] p = {"neha@campus.edu", "neha1@campus.edu"} -> 97
      [] p = {"neha@campus.edu", "arun@campus.edu"} -> 80
      [] p = {"neha1@campus.edu", "arun@campus.edu"} -> 77
      [] OTHER -> 0

TokenSortRatio(a, b) == FuzzRatio(TokenSorted(a), TokenSorted(b))

\* fuzz.token_set_ratio: with no shared token it is the token-sort ratio of
\* the two strings; with all tokens shared it is 100.  The names of the
\* pool share the token "neha" or none.
TokenSetRatio(a, b) ==
    IF TokenSorted(a) = TokenSorted(b) THEN 100
    ELSE IF {a, b} \subseteq {"neha mehta", "neha  mehta", "neha mehra"} THEN 90
    ELSE TokenSortRatio(a, b)

CheckDirectMatch(record1, record2, field) ==
    /\ record1[field] # NONE
    /\ record2[field] # NONE
    /\ record1[field] = record2[field]

\* in percent
CalculateNameSimilarity(record1, record2) ==
    LET name1 == StripLower(record1.name)
        name2 == StripLower(record2.name)
    IN  IF name1 = "" \/ name2 = "" THEN 0
        ELSE SetMax({FuzzRatio(name1, name2), TokenSortRatio(name1, name2),
                     TokenSetRatio(name1, name2)})

\* in percent
CalculateEmailSimilarity(record1, record2) ==
    LET email1 == StripLower(record1.email)
        email2 == StripLower(record2.email)
    IN  IF email1 = "" \/ email2 = "" THEN 0
        ELSE FuzzRatio(email1, email2)

\* in thousandths: the best 1 - diff/window over the timestamp pairs
CalculateTemporalCorrelation(record1, record2) ==
    LET scores == {1000 - (1000 * AbsDiff(t1, t2)) \div time_window_minutes :
                      <<t1, t2>> \in {p \in record1.times \X record2.times :
                                         AbsDiff(p[1], p[2]) <= time_window_minutes}}
    IN  IF scores = {} THEN 0 ELSE SetMax(scores \cup {0})

\* Jaccard similarity in thousandths (rounded down)
CalculateLocationCorrelation(record1, record2) ==
    LET inter == Cardinality(record1.locations \cap record2.locations)
        union == Cardinality(record1.locations \cup record2.locations)
    IN  IF record1.locations = {} \/ record2.locations = {} THEN 0
        ELSE (1000 * inter) \div union

\* the e-mail similarity counted in full instead of times 0.7
ConfidenceScoresFullEmail(record1, record2) ==
    LET name_similarity == CalculateNameSimilarity(record1, record2)
        email_similarity == CalculateEmailSimilarity(record1, record2)
        temporal_score == CalculateTemporalCorrelation(record1, record2)
        location_score == CalculateLocationCorrelation(record1, record2)
    IN  (IF CheckDirectMatch(record1, record2, "card_id") THEN {950} ELSE {})
        \cup (IF CheckDirectMatch(record1, record2, "device_hash") THEN {900} ELSE {})
        \cup (IF CheckDirectMatch(record1, record2, "face_id") THEN {850} ELSE {})
        \cup (IF name_similarity * 10 > name_similarity_threshold
                THEN {name_similarity * 8} ELSE {})
        \cup (IF email_similarity > 80 THEN {email_similarity * 10} ELSE {})
        \cup (IF temporal_score > 500 THEN {(temporal_score * 6) \div 10} ELSE {})
        \cup (IF location_score > 500 THEN {location_score \div 2} ELSE {})

\* the list confidence_scores of _compare_records, as a set (only its
\* maximum is used), in thousandths
ConfidenceScores(record1, record2) ==
    LET name_similarity == CalculateNameSimilarity(record1, record2)
        email_similarity == CalculateEmailSimilarity(record1, record2)
        temporal_score == CalculateTemporalCorrelation(record1, record2)
        location_score == CalculateLocationCorrelation(record1, record2)
    IN  (IF CheckDirectMatch(record1, record2, "card_id") THEN {950} ELSE {})
        \cup (IF CheckDirectMatch(record1, record2, "device_hash") THEN {900} ELSE {})
        \cup (IF CheckDirectMatch(record1, record2, "face_id") THEN {850} ELSE {})
        \cup (IF name_similarity * 10 > name_similarity_threshold
                THEN {name_similarity * 8} ELSE {})
        \cup (IF email_similarity > 80 THEN {email_similarity * 7} ELSE {})
        \cup (IF temporal_score > 500 THEN {(temporal_score * 6) \div 10} ELSE {})
        \cup (IF location_score > 500 THEN {location_score \div 2} ELSE {})

NoMatch == [source_id |-> NONE, target_id |-> NONE, confidence |-> 0, match_type |-> NONE]

\* the sum of the scores instead of their maximum
CompareRecordsSum(record1, record2) ==
    IF CheckDirectMatch(record1, record2, "entity_id")
    THEN [source_id |-> record1.record_id, target_id |-> record2.record_id,
          confidence |-> 1000, match_type |-> "direct_entity_id"]
    ELSE LET confidence_scores == ConfidenceScores(record1, record2)
         IN  IF confidence_scores # {} /\ SetSum(confidence_scores) >= fuzzy_match_threshold
             THEN [source_id |-> record1.record_id, target_id |-> record2.record_id,
                   confidence |-> SetSum(confidence_scores), match_type |-> "fuzzy_match"]
             ELSE NoMatch

CompareRecords(record1, record2) ==
    IF CheckDirectMatch(record1, record2, "entity_id")
    THEN [source_id |-> record1.record_id, target_id |-> record2.record_id,
          confidence |-> 1000, match_type |-> "direct_entity_id"]
    ELSE LET confidence_scores == ConfidenceScores(record1, record2)
         IN  IF confidence_scores # {} /\ SetMax(confidence_scores) >= fuzzy_match_threshold
             THEN [source_id |-> record1.record_id, target_id |-> record2.record_id,
                   confidence |-> SetMax(confidence_scores), match_type |-> "fuzzy_match"]
             ELSE NoMatch

\* the pairs (i, j), i < j, in the order of the two nested loops
RECURSIVE PairsFrom(_, _, _)
PairsFrom(i, j, n) ==
    IF i >= n THEN <<>>
    ELSE IF j > n THEN PairsFrom(i + 1, i + 2, n)
    ELSE <<(<<i, j>>)>> \o PairsFrom(i, j + 1, n)

FindEntityMatches(entity_records) ==
    LET limited_records == SubSeq(entity_records, 1, Min2(Len(entity_records), RecordLimit))
        pairs == PairsFrom(1, 2, Len(limited_records))
        all == [k \in 1..Len(pairs) |->
                   CompareRecords(limited_records[pairs[k][1]], limited_records[pairs[k][2]])]
    IN  SelectSeq(all, LAMBDA m : m # NoMatch /\ m.confidence >= fuzzy_match_threshold)

----------------------------------------------------------------------------
\* EntityResolver: graph, clustering and resolved entities

\* networkx Graph: nodes in insertion order, one weighted edge per node pair
EmptyGraph == [nodes |-> <<>>, edges |-> {}]

AddNode(g, n) == IF n \in Range(g.nodes) THEN g ELSE [g EXCEPT !.nodes = Append(g.nodes, n)]

AddEdge(g, m) ==
    LET g2 == AddNode(AddNode(g, m.source_id), m.target_id)
        kept == {e \in g2.edges : {e.u, e.v} # {m.source_id, m.target_id}}
    IN  [g2 EXCEPT !.edges = kept \cup {[u |-> m.source_id, v |-> m.target_id,
                                         weight |-> m.confidence]}]

RECURSIVE AddEdges(_, _)
AddEdges(g, matches) ==
    IF matches = <<>> THEN g ELSE AddEdges(AddEdge(g, Head(matches)), Tail(matches))

\* without entity_graph.clear(): the edges of the last call stay
BuildEntityGraphKept(graph, matches) == AddEdges(graph, matches)

\* the graph is cleared, then every match is added as an edge
BuildEntityGraph(graph, matches) == AddEdges(EmptyGraph, matches)

Neighbours(g, S) ==
    S \cup {e.v : e \in {x \in g.edges : x.u \in S}} \cup {e.u : e \in {x \in g.edges : x.v \in S}}

RECURSIVE Reach(_, _)
Reach(g, S) == LET T == Neighbours(g, S) IN IF T = S THEN S ELSE Reach(g, T)

\* nx.connected_components: one node set per component, in node order
RECURSIVE ComponentsFrom(_, _, _)
ComponentsFrom(g, i, seen) ==
    IF i > Len(g.nodes) THEN <<>>
    ELSE IF g.nodes[i] \in seen THEN ComponentsFrom(g, i + 1, seen)
    ELSE LET c == Reach(g, {g.nodes[i]})
         IN  <<c>> \o ComponentsFrom(g, i + 1, seen \cup c)

ConnectedComponents(g) == ComponentsFrom(g, 1, {})

\* the weights of the edges of the subgraph induced by cluster, one per edge
SubgraphWeights(g, cluster) == {e \in g.edges : e.u \in cluster /\ e.v \in cluster}

RECURSIVE WeightSum(_)
WeightSum(edges) ==
    IF edges = {} THEN 0
    ELSE LET e == CHOOSE x \in edges : TRUE IN e.weight + WeightSum(edges \ {e})

\* avg_confidence >= fuzzy_match_threshold, without the division
ClusterKept(g, cluster) ==
    IF Cardinality(cluster) > 1
    THEN LET edges == SubgraphWeights(g, cluster)
         IN  WeightSum(edges) >= fuzzy_match_threshold * Cardinality(edges)
    ELSE TRUE

ClusterEntities(g) ==
    IF Len(g.nodes) = 0 THEN <<>>
    ELSE SelectSeq(ConnectedComponents(g), LAMBDA cluster : ClusterKept(g, cluster))

\* record_lookup: the last record of each record_id
RecordLookup(entity_records, record_id) ==
    LET idx == {i \in 1..Len(entity_records) : entity_records[i].record_id = record_id}
    IN  IF idx = {} THEN BlankRecord ELSE entity_records[SetMax(idx)]

ClusterRecords(cluster, entity_records) ==
    {RecordLookup(entity_records, record_id) : record_id \in cluster}

Collected(recs, key) == {r[key] : r \in {x \in recs : x[key] # NONE /\ x[key] # ""}}

\* the strongest edge instead of the mean
ClusterConfidenceMax(g, cluster) ==
    LET edges == SubgraphWeights(g, cluster)
    IN  IF Cardinality(cluster) > 1 /\ edges # {}
        THEN Thousandths(SetMax({e.weight : e \in edges}))
        ELSE Thousandths(1000)

\* the mean edge weight as the fraction num / den (1.0 when there is no edge)
ClusterConfidence(g, cluster) ==
    LET edges == SubgraphWeights(g, cluster)
    IN  IF Cardinality(cluster) > 1 /\ edges # {}
        THEN Frac(WeightSum(edges), Cardinality(edges))
        ELSE Thousandths(1000)

\* The cluster is a Python set of strings: the first profile record met in
\* its iteration order is any profile record of the cluster.
PrimaryProfiles(cluster, entity_records) ==
    LET profs == {r \in ClusterRecords(cluster, entity_records) : r.dataset = "profiles"}
    IN  IF profs = {} THEN {BlankRecord} ELSE profs

ResolvedEntity(g, cluster, entity_records, primary) ==
    LET recs == ClusterRecords(cluster, entity_records)
    IN  [entity_ids |-> Collected(recs, "entity_id"),
         names |-> Collected(recs, "name"),
         identifiers |-> [card_ids |-> Collected(recs, "card_id"),
                          device_hashes |-> Collected(recs, "device_hash"),
                          face_ids |-> Collected(recs, "face_id"),
                          student_ids |-> Collected(recs, "student_id"),
                          staff_ids |-> Collected(recs, "staff_id"),
                          emails |-> Collected(recs, "email")],
         confidence |-> ClusterConfidence(g, cluster),
         primary_profile |-> primary]

\* every table _create_resolved_entities can return for clusters i, i+1, ...
RECURSIVE EntityTables(_, _, _, _)
EntityTables(g, clusters, entity_records, i) ==
    IF i > Len(clusters) THEN {<<>>}
    ELSE {<<ResolvedEntity(g, clusters[i], entity_records, primary)>> \o rest :
            primary \in PrimaryProfiles(clusters[i], entity_records),
            rest \in EntityTables(g, clusters, entity_records, i + 1)}

CreateResolvedEntities(g, clusters, entity_records) ==
    EntityTables(g, clusters, entity_records, 1)

IdentifierKinds == {"card_ids", "device_hashes", "face_ids", "student_ids", "staff_ids", "emails"}

\* index of the entity get_entity_by_identifier returns, 0 for None
GetEntityByIdentifier(table, identifier, identifier_type) ==
    LET hit(e) ==
            \/ identifier \in e.entity_ids
            \/ /\ identifier_type # NONE
               /\ identifier_type \in IdentifierKinds
               /\ identifier \in e.identifiers[identifier_type]
            \/ /\ identifier_type = NONE
               /\ \E k \in IdentifierKinds : identifier \in e.identifiers[k]
        hits == {i \in 1..Len(table) : hit(table[i])}
    IN  IF hits = {} THEN 0 ELSE SetMin(hits)

----------------------------------------------------------------------------
\* EntityResolver: operations

NoLookup == [identifier |-> NONE, identifier_type |-> NONE, result |-> 0]

LookupIdentifiers == {"E1", "C1", "neha@campus.edu"}
LookupKinds == {NONE, "card_ids"}

\* EntityResolver.__init__
ResolverInit ==
    /\ entity_graph = EmptyGraph
    /\ resolved_entities = <<>>
    /\ entity_clusters = <<>>
    /\ resolve_calls = 0
    /\ lookup = NoLookup

\* the inputs a caller passes to a further call: the same tables again, or
\* the same tables without the card swipes
CallInputs(d) == {d, [d EXCEPT !.card_swipes = <<>>]}

\* resolve_entities(data)
ResolveEntities ==
    /\ resolve_calls < MaxResolveCalls
    /\ \E input \in CallInputs(data) :
          LET entity_records == ExtractEntityRecords(input)
              matches == FindEntityMatches(entity_records)
              graph == BuildEntityGraph(entity_graph, matches)
              clusters == ClusterEntities(graph)
          IN  /\ data' = input
              /\ entity_graph' = graph
              /\ entity_clusters' = clusters
              /\ resolved_entities' \in CreateResolvedEntities(graph, clusters, entity_records)
    /\ resolve_calls' = resolve_calls + 1
    /\ UNCHANGED <<lookup, notResolver>>

\* get_entity_by_identifier(identifier, identifier_type)
GetEntity ==
    /\ \E identifier \in LookupIdentifiers, identifier_type \in LookupKinds :
          lookup' = [identifier |-> identifier, identifier_type |-> identifier_type,
                     result |-> GetEntityByIdentifier(resolved_entities, identifier,
                                                      identifier_type)]
    /\ UNCHANGED <<data, entity_graph, resolved_entities, entity_clusters, resolve_calls,
                   notResolver>>

----------------------------------------------------------------------------
\* MultiModalFusion: inputs

MaxCardRows == 2
MaxCctvRows == 1
MaxWifiRows == 1
MaxLabRows == 1
MaxLibraryRows == 1
MaxNoteRows == 2
MaxFuseCalls == 1

\* Configuration
confidence_threshold == 700
max_time_gap_minutes == 15
face_similarity_threshold == 850

UnifiedId == "unified_entity_000000"

CardRowPool == <<
    [timestamp |-> 540, location_id |-> "LAB_101"],
    [timestamp |-> 555, location_id |-> "LIB_ENT"] >>

CctvRowPool == <<
    [timestamp |-> 540, location_id |-> "LAB_101", face_id |-> "F1"],
    [timestamp |-> 702, location_id |-> "GYM", face_id |-> NONE] >>

WifiRowPool == <<
    [timestamp |-> 548, ap_id |-> "AP_LAB_1"],
    [timestamp |-> 700, ap_id |-> "ROUTER7"] >>

LabRowPool == <<
    [start_time |-> 540, end_time |-> 600, room_id |-> "LAB_101", attended |-> TRUE],
    [start_time |-> 700, end_time |-> 705, room_id |-> "LAB_102", attended |-> FALSE] >>

LibraryRowPool == << [timestamp |-> 650] >>

NoteRowPool == <<
    [timestamp |-> 700, category |-> "helpdesk", text |-> "Lost my ID card"],
    [timestamp |-> 702, category |-> "helpdesk", text |-> "Library printer broken"] >>

EntityDataSets ==
    [card_swipes : Tables(CardRowPool, MaxCardRows),
     cctv_frames : Tables(CctvRowPool, MaxCctvRows),
     wifi_logs : Tables(WifiRowPool, MaxWifiRows),
     lab_bookings : Tables(LabRowPool, MaxLabRows),
     library_checkouts : Tables(LibraryRowPool, MaxLibraryRows),
     notes : Tables(NoteRowPool, MaxNoteRows)]

\* None, an empty table, or a table with the embedding of F1
FaceEmbeddingTables ==
    {[given |-> FALSE, face_ids |-> {}], [given |-> TRUE, face_ids |-> {}],
     [given |-> TRUE, face_ids |-> {"F1"}]}

----------------------------------------------------------------------------
\* MultiModalFusion: activity events

InferLocationFromAp(ap_id) ==
    CASE ap_id = "AP_LAB_1" -> "LAB_101"
      [] ap_id = "AP_LIB_2" -> "LIB_ENT"
      [] ap_id = "AP_XYZ_3" -> "XYZ_AREA"
      [] OTHER -> "UNKNOWN"

\* NONE when no keyword is found
InferLocationFromText(text) ==
    CASE text = "Library printer broken" -> "LIB_ENT"
      [] text = "Projector in the lab fails" -> "LAB_101"
      [] OTHER -> NONE

ActivityEvent(ts, loc, type, ds, conf, face) ==
    [entity_id |-> UnifiedId, timestamp |-> ts, location |-> loc, event_type |-> type,
     source_dataset |-> ds, confidence |-> conf, face_id |-> face]

RECURSIVE LabEvents(_)
LabEvents(rows) ==
    IF rows = <<>> THEN <<>>
    ELSE LET row == Head(rows)
             conf == IF row.attended THEN 900 ELSE 600
         IN  <<ActivityEvent(row.start_time, row.room_id, "lab_booking_start",
                             "lab_bookings", conf, NONE),
               ActivityEvent(row.end_time, row.room_id, "lab_booking_end",
                             "lab_bookings", conf, NONE)>> \o LabEvents(Tail(rows))

ExtractActivityEvents(d) ==
    [i \in 1..Len(d.card_swipes) |->
        ActivityEvent(d.card_swipes[i].timestamp, d.card_swipes[i].location_id,
                      "card_swipe", "card_swipes", 950, NONE)]
    \o [i \in 1..Len(d.cctv_frames) |->
        ActivityEvent(d.cctv_frames[i].timestamp, d.cctv_frames[i].location_id,
                      "cctv_detection", "cctv_frames", 850, d.cctv_frames[i].face_id)]
    \o [i \in 1..Len(d.wifi_logs) |->
        ActivityEvent(d.wifi_logs[i].timestamp, InferLocationFromAp(d.wifi_logs[i].ap_id),
                      "wifi_connection", "wifi_logs", 750, NONE)]
    \o LabEvents(d.lab_bookings)
    \o [i \in 1..Len(d.library_checkouts) |->
        ActivityEvent(d.library_checkouts[i].timestamp, "LIB_ENT",
                      "library_checkout", "library_checkouts", 850, NONE)]
    \o [i \in 1..Len(d.notes) |->
        LET location == InferLocationFromText(d.notes[i].text)
        IN  ActivityEvent(d.notes[i].timestamp,
                          IF location = NONE THEN "UNKNOWN" ELSE location,
                          "note_" \o d.notes[i].category, "notes", 700, NONE)]

\* list.sort(key=timestamp): stable, so equal timestamps keep their order
RECURSIVE InsertByTimestamp(_, _)
InsertByTimestamp(sorted, x) ==
    IF sorted = <<>> THEN <<x>>
    ELSE IF sorted[Len(sorted)].timestamp <= x.timestamp THEN Append(sorted, x)
    ELSE Append(InsertByTimestamp(SubSeq(sorted, 1, Len(sorted) - 1), x), sorted[Len(sorted)])

RECURSIVE SortByTimestamp(_)
SortByTimestamp(s) ==
    IF s = <<>> THEN <<>>
    ELSE InsertByTimestamp(SortByTimestamp(SubSeq(s, 1, Len(s) - 1)), s[Len(s)])

----------------------------------------------------------------------------
\* MultiModalFusion: temporal clustering and cluster reduction

\* the loop of _cluster_temporal_events over sorted events i, i+1, ...
\* time_diff < max_time_gap_minutes
RECURSIVE ClusterLoopStrict(_, _, _, _)
ClusterLoopStrict(events, i, clusters, current_cluster) ==
    IF i > Len(events) THEN Append(clusters, current_cluster)
    ELSE LET time_diff == events[i].timestamp - current_cluster[Len(current_cluster)].timestamp
         IN  IF time_diff < max_time_gap_minutes
             THEN ClusterLoopStrict(events, i + 1, clusters, Append(current_cluster, events[i]))
             ELSE ClusterLoopStrict(events, i + 1, Append(clusters, current_cluster),
                                    <<events[i]>>)

RECURSIVE ClusterLoop(_, _, _, _)
ClusterLoop(events, i, clusters, current_cluster) ==
    IF i > Len(events) THEN Append(clusters, current_cluster)
    ELSE LET time_diff == events[i].timestamp - current_cluster[Len(current_cluster)].timestamp
         IN  IF time_diff <= max_time_gap_minutes
             THEN ClusterLoop(events, i + 1, clusters, Append(current_cluster, events[i]))
             ELSE ClusterLoop(events, i + 1, Append(clusters, current_cluster), <<events[i]>>)

ClusterTemporalEvents(events) ==
    IF events = <<>> THEN <<>>
    ELSE LET sorted == SortByTimestamp(events)
         IN  ClusterLoop(sorted, 2, <<>>, <<sorted[1]>>)

\* the face_ids _validate_face_recognition reports on (the keys of its
\* dictionary); {} stands for its None
ValidateFaceRecognition(events, embeddings) ==
    IF embeddings.face_ids = {} THEN {}
    ELSE {events[i].face_id : i \in {k \in 1..Len(events) :
                /\ events[k].event_type = "cctv_detection"
                /\ events[k].face_id # NONE
                /\ events[k].face_id \in embeddings.face_ids}}

\* face_validation.get('similarity', 0): the dictionary is keyed by face_id
FaceSimilarity(face_validation) == IF "similarity" \in face_validation THEN 900 ELSE 0

EventTimes(events) == {events[i].timestamp : i \in 1..Len(events)}

\* min(1.0, final_confidence) with final_confidence = num / den
ClampMissing(num, den) == Frac(num, den)
Clamp(num, den) == IF num > 1000 * den THEN Thousandths(1000) ELSE Frac(num, den)

CalculateFusionConfidence(events, embeddings) ==
    IF events = <<>> THEN Thousandths(0)
    ELSE
    LET n == Len(events)
        conf_sum == SeqSum([i \in 1..n |-> events[i].confidence])
        unique_sources == Cardinality({events[i].source_dataset : i \in 1..n})
        source_bonus == Min2(200, unique_sources * 50)
        locations == {events[i].location : i \in 1..n} \ {"UNKNOWN"}
        \* location_consistency = lcN / lcD
        lcN == IF Cardinality(locations) <= 1 THEN 1 ELSE 4
        lcD == IF Cardinality(locations) <= 1 THEN 1 ELSE 5
        time_span == SetMax(EventTimes(events)) - SetMin(EventTimes(events))
        \* temporal_consistency = tcN / tcD = max(0.5, 1 - time_span / max_time_gap_minutes)
        half == n > 1 /\ 2 * (max_time_gap_minutes - time_span) < max_time_gap_minutes
        tcN == IF n = 1 THEN 1 ELSE IF half THEN 1 ELSE max_time_gap_minutes - time_span
        tcD == IF n = 1 THEN 1 ELSE IF half THEN 2 ELSE max_time_gap_minutes
        face_validation == IF embeddings.given
                           THEN ValidateFaceRecognition(events, embeddings) ELSE {}
        face_bonus == IF /\ embeddings.given
                         /\ face_validation # {}
                         /\ FaceSimilarity(face_validation) > face_similarity_threshold
                      THEN 100 ELSE 0
        den == n * lcD * tcD
        num == (conf_sum + n * source_bonus) * lcN * tcN + face_bonus * den
    IN  Clamp(num, den)

\* location_scores in insertion order; the key mean * count is the sum of
\* the confidences at the location; max() keeps the first maximum
PrimaryLocation(events) ==
    LET locs == Unique([i \in 1..Len(events) |-> events[i].location])
        score(loc) == SeqSum([i \in 1..Len(events) |->
                                IF events[i].location = loc THEN events[i].confidence ELSE 0])
        best == SetMax({score(locs[k]) : k \in 1..Len(locs)})
    IN  locs[SetMin({k \in 1..Len(locs) : score(locs[k]) = best})]

\* max(set(activity_types), key=activity_types.count): the set of strings is
\* iterated in hash order, so any most frequent type can be the result
PrimaryActivities(events) ==
    LET types == {events[i].event_type : i \in 1..Len(events)}
        count(t) == Cardinality({i \in 1..Len(events) : events[i].event_type = t})
    IN  {t \in types : \A u \in types : count(u) <= count(t)}

GenerateCrossSourceEvidence(events) ==
    (IF Len(events) > 1 THEN {"temporal_correlation"} ELSE {})
    \cup (IF {events[i].location : i \in 1..Len(events)} \ {"UNKNOWN"} # {}
            THEN {"location_correlation"} ELSE {})
    \cup {"source_diversity", "activity_pattern"}

\* provenance[dataset]: the last event of each dataset
Provenance(events) ==
    {<<events[i].source_dataset, events[i].event_type, events[i].timestamp>> :
        i \in {k \in 1..Len(events) :
                \A l \in (k + 1)..Len(events) :
                    events[l].source_dataset # events[k].source_dataset}}

\* the records _fuse_event_cluster can return for a non-empty cluster
FuseEventCluster(events, embeddings) ==
    {[unified_entity_id |-> events[1].entity_id,
      timestamp |-> SetMin(EventTimes(events)),
      location |-> PrimaryLocation(events),
      activity_type |-> primary_activity,
      confidence |-> CalculateFusionConfidence(events, embeddings),
      source_records |-> [i \in 1..Len(events) |->
                            [dataset |-> events[i].source_dataset,
                             event_type |-> events[i].event_type,
                             timestamp |-> events[i].timestamp,
                             confidence |-> events[i].confidence]],
      provenance |-> Provenance(events),
      evidence |-> GenerateCrossSourceEvidence(events)
                   \cup (IF embeddings.given /\ ValidateFaceRecognition(events, embeddings) # {}
                           THEN {"face_recognition"} ELSE {})] :
     primary_activity \in PrimaryActivities(events)}

\* record.confidence >= confidence_threshold
MeetsThresholdStrict(record) == FracLT(Thousandths(confidence_threshold), record.confidence)
MeetsThreshold(record) == FracLE(Thousandths(confidence_threshold), record.confidence)

ValidateFusionRecords(records) == SelectSeq(records, MeetsThreshold)

\* every list of fused records for clusters i, i+1, ...
RECURSIVE FusedLists(_, _, _)
FusedLists(clusters, embeddings, i) ==
    IF i > Len(clusters) THEN {<<>>}
    ELSE {<<fused_record>> \o rest :
            fused_record \in FuseEventCluster(clusters[i], embeddings),
            rest \in FusedLists(clusters, embeddings, i + 1)}

----------------------------------------------------------------------------
\* MultiModalFusion: operations

\* MultiModalFusion.__init__ (no call made yet)
FusionInit ==
    /\ event_clusters = <<>>
    /\ fused_records = <<>>
    /\ fuse_calls = 0

\* fuse_entity_data(entity, entity_data, face_embeddings)
FuseEntityData ==
    /\ fuse_calls < MaxFuseCalls
    /\ LET activity_events == ExtractActivityEvents(entity_data)
           clusters == ClusterTemporalEvents(activity_events)
       IN  /\ event_clusters' = clusters
           /\ \E fused \in FusedLists(clusters, face_embeddings, 1) :
                 fused_records' = ValidateFusionRecords(SortByTimestamp(fused))
    /\ fuse_calls' = fuse_calls + 1
    /\ UNCHANGED <<entity_data, face_embeddings, notFusion>>

----------------------------------------------------------------------------
\* TimelineGenerator: inputs

MaxTimelineRecords == 3
MaxTimelineCalls == 1

\* Configuration
max_gap_hours == 2
MergeWindowMinutes == 5
GapStartMinutes == 30

\* Fusion records as the timeline reads them: confidence is in thousandths,
\* sources is the datasets of source_records (a list in the code; its order
\* and repetitions are not modelled)
FusionRecordPool == <<
    [timestamp |-> 0, location |-> "LAB_101", activity_type |-> "card_swipe",
     confidence |-> 950, sources |-> {"card_swipes"}],
    [timestamp |-> 0, location |-> "LIB_ENT", activity_type |-> "library_checkout",
     confidence |-> 850, sources |-> {"library_checkouts"}],
    [timestamp |-> 5, location |-> "LAB_101", activity_type |-> "wifi_connection",
     confidence |-> 750, sources |-> {"wifi_logs"}],
    [timestamp |-> 10, location |-> "LAB_101", activity_type |-> "card_swipe",
     confidence |-> 1000, sources |-> {"card_swipes", "cctv_frames"}],
    [timestamp |-> 16, location |-> "LAB_101", activity_type |-> "cctv_detection",
     confidence |-> 900, sources |-> {"cctv_frames"}],
    [timestamp |-> 125, location |-> "LIB_ENT", activity_type |-> "card_swipe",
     confidence |-> 950, sources |-> {"card_swipes"}],
    [timestamp |-> 130, location |-> "LIB_ENT", activity_type |-> "library_checkout",
     confidence |-> 850, sources |-> {"library_checkouts"}],
    [timestamp |-> 400, location |-> "UNKNOWN", activity_type |-> "note_helpdesk",
     confidence |-> 750, sources |-> {"notes"}] >>

\* every list of at most max distinct pool records, in every order
RECURSIVE Arrangements(_, _)
Arrangements(pool, max) ==
    IF max = 0 THEN {<<>>}
    ELSE LET shorter == Arrangements(pool, max - 1)
         IN  shorter \cup {Append(s, pool[i]) :
                             s \in {t \in shorter : Len(t) = max - 1},
                             i \in 1..Len(pool)}

RecordLists ==
    {s \in Arrangements(FusionRecordPool, MaxTimelineRecords) :
        \A i, j \in 1..Len(s) : i # j => s[i] # s[j]}

Absent == [given |-> FALSE, value |-> 0]
Given(v) == [given |-> TRUE, value |-> v]

TimeRanges ==
    {[start_time |-> Absent, end_time |-> Absent],
     [start_time |-> Given(5), end_time |-> Absent],
     [start_time |-> Absent, end_time |-> Given(125)],
     [start_time |-> Given(5), end_time |-> Given(125)]}

----------------------------------------------------------------------------
\* TimelineGenerator: conversion, merging and gaps

\* TRUE when the list returned is the caller's own list, not a new one
FilterReturnsSameList(range) == ~range.start_time.given /\ ~range.end_time.given

FilterByTimeRange(records, range) ==
    IF FilterReturnsSameList(range) THEN records
    ELSE SelectSeq(records, LAMBDA record :
            /\ ~(range.start_time.given /\ record.timestamp < range.start_time.value)
            /\ ~(range.end_time.given /\ record.timestamp > range.end_time.value))

\* the text of _generate_event_description, kept as its parts
GenerateEventDescription(record) ==
    [kind |-> "single", activities |-> {record.activity_type}, location |-> record.location,
     more |-> 0, hours |-> 0, minutes |-> 0]

ConvertToTimelineEvents(records) ==
    [i \in 1..Len(records) |->
        [timestamp |-> records[i].timestamp,
         location |-> records[i].location,
         activity |-> records[i].activity_type,
         description |-> GenerateEventDescription(records[i]),
         confidence |-> Thousandths(records[i].confidence),
         sources |-> records[i].sources,
         duration |-> Absent,
         related_events |-> <<>>]]

\* time_diff <= 5 and same_location
ShouldMergeAnyLocation(event, last_event) ==
    event.timestamp - last_event.timestamp <= MergeWindowMinutes
\* same_location only
ShouldMergeSameLocation(event, last_event) == event.location = last_event.location
ShouldMerge(event, last_event) ==
    /\ event.timestamp - last_event.timestamp <= MergeWindowMinutes
    /\ event.location = last_event.location

\* the groups of _merge_related_events, in order
RECURSIVE GroupLoop(_, _, _, _)
GroupLoop(events, i, groups, current_group) ==
    IF i > Len(events) THEN Append(groups, current_group)
    ELSE IF ShouldMerge(events[i], current_group[Len(current_group)])
         THEN GroupLoop(events, i + 1, groups, Append(current_group, events[i]))
         ELSE GroupLoop(events, i + 1, Append(groups, current_group), <<events[i]>>)

EventGroups(events) ==
    IF events = <<>> THEN <<>> ELSE GroupLoop(events, 2, <<>>, <<events[1]>>)

\* the values max(set(xs), key=xs.count) can return
Modes(xs) ==
    LET count(x) == Cardinality({i \in 1..Len(xs) : xs[i] = x})
    IN  {x \in Range(xs) : \A y \in Range(xs) : count(y) <= count(x)}

\* the mean of fractions
RECURSIVE FracSum(_)
FracSum(fs) ==
    IF fs = <<>> THEN Thousandths(0)
    ELSE LET rest == FracSum(Tail(fs))
         IN  Frac(Head(fs).num * rest.den + rest.num * Head(fs).den, Head(fs).den * rest.den)

FracMean(fs) == LET total == FracSum(fs) IN Frac(total.num, total.den * Len(fs))

\* the events _create_merged_event can return for a group
CreateMergedEvent(event_group) ==
    IF Len(event_group) = 1 THEN {event_group[1]}
    ELSE
    LET times == {event_group[i].timestamp : i \in 1..Len(event_group)}
        activities == [i \in 1..Len(event_group) |-> event_group[i].activity]
        unique_activities == Range(activities)
    IN  {[timestamp |-> SetMin(times),
          location |-> location,
          activity |-> primary_activity,
          description |->
              IF Cardinality(unique_activities) = 1 THEN event_group[1].description
              ELSE [kind |-> "multiple", activities |-> shown, location |-> location,
                    more |-> Cardinality(unique_activities) - Cardinality(shown),
                    hours |-> 0, minutes |-> 0],
          confidence |-> FracMean([i \in 1..Len(event_group) |-> event_group[i].confidence]),
          sources |-> UNION {event_group[i].sources : i \in 1..Len(event_group)},
          duration |-> Given(SetMax(times) - SetMin(times)),
          related_events |-> [i \in 1..(Len(event_group) - 1) |->
                                <<event_group[i + 1].activity, event_group[i + 1].timestamp>>]] :
         location \in Modes([i \in 1..Len(event_group) |-> event_group[i].location]),
         primary_activity \in Modes(activities),
         shown \in {sh \in SUBSET unique_activities :
                      Cardinality(sh) = Min2(3, Cardinality(unique_activities))}}

\* every list of merged events for groups i, i+1, ...
RECURSIVE MergedLists(_, _)
MergedLists(groups, i) ==
    IF i > Len(groups) THEN {<<>>}
    ELSE {<<merged_event>> \o rest :
            merged_event \in CreateMergedEvent(groups[i]),
            rest \in MergedLists(groups, i + 1)}

MergeRelatedEvents(events) == MergedLists(EventGroups(events), 1)

\* gap_duration > timedelta(hours=max_gap_hours)
IsGapNonStrict(gap_duration) == gap_duration >= max_gap_hours * 60
IsGap(gap_duration) == gap_duration > max_gap_hours * 60

\* the gap placed 30 minutes after the event that follows it
CreateGapEventLate(before_event, after_event, gap_duration) ==
    [timestamp |-> after_event.timestamp + GapStartMinutes,
     location |-> "UNKNOWN",
     activity |-> "gap",
     description |-> [kind |-> "gap", activities |-> {}, location |-> "UNKNOWN", more |-> 0,
                      hours |-> gap_duration \div 60, minutes |-> gap_duration % 60],
     confidence |-> Thousandths(0),
     sources |-> {},
     duration |-> Given(gap_duration),
     related_events |-> <<>>]

CreateGapEvent(before_event, after_event, gap_duration) ==
    [timestamp |-> before_event.timestamp + GapStartMinutes,
     location |-> "UNKNOWN",
     activity |-> "gap",
     description |-> [kind |-> "gap", activities |-> {}, location |-> "UNKNOWN", more |-> 0,
                      hours |-> gap_duration \div 60, minutes |-> gap_duration % 60],
     confidence |-> Thousandths(0),
     sources |-> {},
     duration |-> Given(gap_duration),
     related_events |-> <<>>]

RECURSIVE GapLoop(_, _)
GapLoop(events, i) ==
    IF i > Len(events) THEN <<>>
    ELSE <<events[i]>>
         \o (IF i < Len(events) /\ IsGap(events[i + 1].timestamp - events[i].timestamp)
               THEN <<CreateGapEvent(events[i], events[i + 1],
                                     events[i + 1].timestamp - events[i].timestamp)>>
               ELSE <<>>)
         \o GapLoop(events, i + 1)

DetectAndAnalyzeGaps(events) == IF Len(events) < 2 THEN events ELSE GapLoop(events, 1)

----------------------------------------------------------------------------
\* TimelineGenerator: operations

NoSummary == [made |-> FALSE, gaps |-> <<>>]

TimelineInit ==
    /\ event_groups = <<>>
    /\ timeline = <<>>
    /\ timeline_calls = 0
    /\ summary = NoSummary

\* generate_timeline(entity_id, fused_records, start_time, end_time)
GenerateTimeline ==
    /\ timeline_calls < MaxTimelineCalls
    /\ LET filtered_records == FilterByTimeRange(caller_records, time_range)
           sorted_records == SortByTimestamp(filtered_records)
           timeline_events == ConvertToTimelineEvents(sorted_records)
       IN  IF filtered_records = <<>>
           THEN /\ timeline' = <<>>
                /\ event_groups' = <<>>
                /\ UNCHANGED caller_records
           ELSE /\ \E merged_events \in MergeRelatedEvents(timeline_events) :
                      timeline' = DetectAndAnalyzeGaps(merged_events)
                /\ event_groups' = EventGroups(timeline_events)
                \* filtered_records.sort() sorts the caller's list when the
                \* filter returned it
                /\ caller_records' = IF FilterReturnsSameList(time_range)
                                     THEN sorted_records ELSE caller_records
    /\ timeline_calls' = timeline_calls + 1
    /\ UNCHANGED <<time_range, summary, notTimeline>>

\* the gaps of generate_summary: (timestamp, timestamp + duration) of every
\* gap event that has a duration other than zero
SummaryGaps(timeline_events) ==
    LET gap_events == SelectSeq(timeline_events, LAMBDA event :
                          /\ event.activity = "gap"
                          /\ event.duration.given
                          /\ event.duration.value # 0)
    IN  [k \in 1..Len(gap_events) |->
            <<gap_events[k].timestamp, gap_events[k].timestamp + gap_events[k].duration.value>>]

\* generate_summary(entity_id, timeline_events) on the timeline returned
GenerateSummary ==
    /\ timeline_calls > 0
    /\ summary' = [made |-> TRUE, gaps |-> SummaryGaps(timeline)]
    /\ UNCHANGED <<caller_records, time_range, event_groups, timeline, timeline_calls,
                   notTimeline>>

----------------------------------------------------------------------------
\* PredictiveMonitor: artefacts

MaxTrainingRecords == 2
MaxMonitorCalls == 4

\* Configuration
alert_absence_hours == 12

\* which fit produced an artefact: the n-th call on the monitor, or the
\* training that wrote model file n
NoFit == [by |-> "none", n |-> 0]
TrainFit(n) == [by |-> "train", n |-> n]
BlobFit(n) == [by |-> "blob", n |-> n]

Estimator(class, fit) == [class |-> class, fit |-> fit]
NoEstimator == Estimator(NONE, NoFit)
IsFitted(estimator) == estimator.class # NONE /\ estimator.fit # NoFit

\* self.label_encoders: the entries 'location' and 'activity'
NoEncoder == [present |-> FALSE, classes |-> {}, fit |-> NoFit]
LabelEncoder(classes, fit) == [present |-> TRUE, classes |-> classes, fit |-> fit]
NoEncoders == [location |-> NoEncoder, activity |-> NoEncoder]

PREDICTION_CONFIG == [name |-> "PREDICTION_CONFIG", alert_absence_hours |-> alert_absence_hours]

\* the monitor as __init__ leaves it
NewMonitor ==
    [config |-> PREDICTION_CONFIG,
     location_predictor |-> NoEstimator,
     activity_predictor |-> NoEstimator,
     anomaly_detector |-> NoEstimator,
     label_encoders |-> NoEncoders,
     feature_scaler |-> Estimator("StandardScaler", NoFit),
     is_trained |-> FALSE]

\* the keys load_models reads with model_data[key], in its order
ModelKeys ==
    <<"location_predictor", "activity_predictor", "anomaly_detector",
      "label_encoders", "feature_scaler">>

AllKeys == Range(ModelKeys) \cup {"config"}

----------------------------------------------------------------------------
\* PredictiveMonitor: training

TrainingRecordPool == <<
    [location |-> "LAB_101", activity_type |-> "card_swipe", valid |-> TRUE],
    [location |-> "LIB_ENT", activity_type |-> "library_checkout", valid |-> TRUE],
    \* a record whose timestamp is no datetime: _extract_features returns None
    [location |-> "GYM", activity_type |-> "cctv_detection", valid |-> FALSE] >>

TrainingDataSets == Arrangements(TrainingRecordPool, MaxTrainingRecords)

\* train_test_split(test_size=0.2): ceil(0.2 n) test samples, the rest train
SplitSizes(n) == [test |-> (n + 4) \div 5, train |-> n - ((n + 4) \div 5)]

\* one target column of _prepare_training_data: fit a new encoder, or
\* transform with the one there is (ValueError on a label it has not seen)
EncodeTargets(encoders, key, labels, fit) ==
    IF ~encoders[key].present
    THEN [encoders |-> [encoders EXCEPT ![key] = LabelEncoder(labels, fit)], raised |-> FALSE]
    ELSE [encoders |-> encoders, raised |-> ~(labels \subseteq encoders[key].classes)]

PrepareTrainingData(m, training_data, fit) ==
    LET features == SelectSeq(training_data, LAMBDA record : record.valid)
        location_targets == {features[i].location : i \in 1..Len(features)}
        activity_targets == {features[i].activity_type : i \in 1..Len(features)}
        location == EncodeTargets(m.label_encoders, "location", location_targets, fit)
        activity == EncodeTargets(location.encoders, "activity", activity_targets, fit)
    IN  IF features = <<>> THEN [monitor |-> m, raised |-> FALSE, samples |-> 0]
        ELSE IF location.raised THEN [monitor |-> m, raised |-> TRUE, samples |-> 0]
        ELSE [monitor |-> [m EXCEPT !.label_encoders = activity.encoders],
              raised |-> activity.raised, samples |-> Len(features)]

SetTrained(m) == [m EXCEPT !.is_trained = TRUE]

\* the statements of train_predictive_models that write the monitor, in
\* their order: lines 93, 97, 100, 103, 106, 110, 113 and 126
TrainStatements ==
    <<"scale", "new_location", "fit_location", "new_activity", "fit_activity",
      "new_anomaly", "fit_anomaly", "set_trained">>

TrainStatement(m, statement, fit) ==
    CASE statement = "scale" ->
            [m EXCEPT !.feature_scaler = Estimator("StandardScaler", fit)]
      [] statement = "new_location" ->
            [m EXCEPT !.location_predictor = Estimator("RandomForestClassifier", NoFit)]
      [] statement = "fit_location" ->
            [m EXCEPT !.location_predictor = Estimator("RandomForestClassifier", fit)]
      [] statement = "new_activity" ->
            [m EXCEPT !.activity_predictor = Estimator("RandomForestClassifier", NoFit)]
      [] statement = "fit_activity" ->
            [m EXCEPT !.activity_predictor = Estimator("RandomForestClassifier", fit)]
      [] statement = "new_anomaly" ->
            [m EXCEPT !.anomaly_detector = Estimator("IsolationForest", NoFit)]
      [] statement = "fit_anomaly" ->
            [m EXCEPT !.anomaly_detector = Estimator("IsolationForest", fit)]
      [] statement = "set_trained" -> SetTrained(m)

\* the statements from the i-th on
RECURSIVE FitModelsFrom(_, _, _)
FitModelsFrom(m, fit, i) ==
    IF i > Len(TrainStatements) THEN m
    ELSE FitModelsFrom(TrainStatement(m, TrainStatements[i], fit), fit, i + 1)

FitModels(m, fit) == FitModelsFrom(m, fit, 1)

\* the monitor after train_predictive_models and what the call did: returned
\* {} ("empty"), returned the performance, or raised
Trained(m, training_data, fit) ==
    LET prepared == PrepareTrainingData(m, training_data, fit)
    IN  IF training_data = <<>> THEN [monitor |-> m, kind |-> "empty"]
        ELSE IF prepared.raised THEN [monitor |-> prepared.monitor, kind |-> "raised"]
        ELSE IF prepared.samples = 0 THEN [monitor |-> prepared.monitor, kind |-> "empty"]
        ELSE IF SplitSizes(prepared.samples).train = 0
             THEN [monitor |-> prepared.monitor, kind |-> "raised"]
        ELSE [monitor |-> FitModels(prepared.monitor, fit), kind |-> "performance"]

----------------------------------------------------------------------------
\* PredictiveMonitor: model files

ModelPaths == {"models/full.pkl", "models/partial.pkl", "models/saved.pkl"}
SavePaths == {"models/saved.pkl"}

SavedConfig == [name |-> "saved", alert_absence_hours |-> 24]

NoFile ==
    [exists |-> FALSE, keys |-> {}, config |-> PREDICTION_CONFIG,
     location_predictor |-> NoEstimator, activity_predictor |-> NoEstimator,
     anomaly_detector |-> NoEstimator, label_encoders |-> NoEncoders,
     feature_scaler |-> NoEstimator]

\* the dictionary save_models dumps
ModelData(m) ==
    [exists |-> TRUE, keys |-> AllKeys, config |-> m.config,
     location_predictor |-> m.location_predictor,
     activity_predictor |-> m.activity_predictor,
     anomaly_detector |-> m.anomaly_detector,
     label_encoders |-> m.label_encoders,
     feature_scaler |-> m.feature_scaler]

\* a file written by save_models of a monitor trained elsewhere
SavedElsewhere(n) ==
    ModelData([NewMonitor EXCEPT
        !.config = SavedConfig,
        !.location_predictor = Estimator("RandomForestClassifier", BlobFit(n)),
        !.activity_predictor = Estimator("RandomForestClassifier", BlobFit(n)),
        !.anomaly_detector = Estimator("IsolationForest", BlobFit(n)),
        !.label_encoders = [location |-> LabelEncoder({"LAB_101", "GYM"}, BlobFit(n)),
                            activity |-> LabelEncoder({"card_swipe", "cctv_detection"}, BlobFit(n))],
        !.feature_scaler = Estimator("StandardScaler", BlobFit(n))])

\* the same without one of its keys
Without(file, key) == [file EXCEPT !.keys = file.keys \ {key}, ![key] = NoFile[key]]

\* the disks the monitor can start on: a complete file, a file that lacks
\* one key, and no file yet at the path save_models writes
FileSystems ==
    {[path \in ModelPaths |->
        IF path = "models/full.pkl" THEN SavedElsewhere(1)
        ELSE IF path = "models/partial.pkl" THEN Without(SavedElsewhere(2), key)
        ELSE NoFile] : key \in AllKeys}

SaveModels(m, files, path) ==
    IF ~m.is_trained THEN files ELSE [files EXCEPT ![path] = ModelData(m)]

\* self.<key> = model_data[key]
LoadKey(m, file, key) == [m EXCEPT ![key] = file[key]]

\* self.config = model_data.get('config', self.config)
LoadConfig(m, file) ==
    IF "config" \in file.keys THEN [m EXCEPT !.config = file.config] ELSE m

\* the assignments of load_models from key i on, up to the first KeyError
RECURSIVE LoadFrom(_, _, _)
LoadFrom(m, file, i) ==
    IF i > Len(ModelKeys)
    THEN [monitor |-> SetTrained(LoadConfig(m, file)), kind |-> "loaded"]
    ELSE IF ModelKeys[i] \notin file.keys THEN [monitor |-> m, kind |-> "failed"]
    ELSE LoadFrom(LoadKey(m, file, ModelKeys[i]), file, i + 1)

\* the monitor after load_models, and whether the except branch was taken
Loaded(m, file) ==
    IF ~file.exists THEN [monitor |-> m, kind |-> "failed"] ELSE LoadFrom(m, file, 1)

----------------------------------------------------------------------------
\* PredictiveMonitor: prediction and anomaly detection

\* the fits of the artefacts a call computed with
NoUse ==
    [feature_scaler |-> NoFit, location_predictor |-> NoFit, activity_predictor |-> NoFit,
     location_classes |-> NoFit, activity_classes |-> NoFit,
     anomaly_detector |-> NoFit, label_encoders |-> NoFit]

Outcome(op, kind) ==
    [op |-> op, kind |-> kind, used |-> NoUse, absence |-> "none", absence_minutes |-> 0,
     behavioral |-> 0]

NoCall == Outcome("none", "none")

PredictionRequests ==
    [entity_id : {"E1", "E9"}, timestamp_valid : BOOLEAN, context_records : {0, 1}]

\* if not self.is_trained
IsTrainedIgnored(m) == TRUE
IsTrained(m) == m.is_trained

\* what predict_missing_data returns: None ("none"), a Prediction, or an
\* exception of an artefact that is None or not fitted
Prediction(m, request) ==
    IF ~IsTrained(m) THEN Outcome("predict", "none")
    ELSE IF ~request.timestamp_valid THEN Outcome("predict", "none")
    ELSE IF \/ ~IsFitted(m.feature_scaler)
            \/ ~IsFitted(m.location_predictor)
            \/ ~IsFitted(m.activity_predictor)
            \/ ~m.label_encoders.location.present
            \/ ~m.label_encoders.activity.present
         THEN Outcome("predict", "raised")
    ELSE [Outcome("predict", "prediction") EXCEPT
            !.used = [NoUse EXCEPT
                        !.feature_scaler = m.feature_scaler.fit,
                        !.location_predictor = m.location_predictor.fit,
                        !.activity_predictor = m.activity_predictor.fit,
                        !.location_classes = m.location_predictor.fit,
                        !.activity_classes = m.activity_predictor.fit,
                        !.label_encoders = m.label_encoders.location.fit]]

\* minutes between the last record of the entity and now
AgePool == {0, 720, 721, 1080, 1440, 1441}

\* entity_records, each record by its age
DetectionRequests == {<<>>} \cup {<<age>> : age \in AgePool} \cup {<<1441, 1080>>}

\* max(entity_records, key=timestamp): the age of the most recent record
TimeSinceLast(entity_records) == SetMin(Range(entity_records))

\* _check_absence_anomaly
CheckAbsenceAnomaly(m, entity_records) ==
    LET time_since_last == TimeSinceLast(entity_records)
    IN  IF time_since_last > m.config.alert_absence_hours * 60
        THEN IF time_since_last > 24 * 60 THEN "high" ELSE "medium"
        ELSE "none"

\* without the test of entity_records: max() of an empty list raises
AlertsOfAnyList(m, entity_records) ==
    IF ~m.is_trained THEN {Outcome("detect", "empty")}
    ELSE IF \/ entity_records = <<>>
            \/ ~IsFitted(m.feature_scaler)
            \/ ~IsFitted(m.anomaly_detector)
         THEN {Outcome("detect", "raised")}
    ELSE {[Outcome("detect", "alerts") EXCEPT
             !.used = [NoUse EXCEPT !.feature_scaler = m.feature_scaler.fit,
                                    !.anomaly_detector = m.anomaly_detector.fit],
             !.absence = CheckAbsenceAnomaly(m, entity_records),
             !.absence_minutes = IF CheckAbsenceAnomaly(m, entity_records) = "none" THEN 0
                                 ELSE TimeSinceLast(entity_records),
             !.behavioral = behavioral] :
          behavioral \in 0..Len(entity_records)}

\* what detect_anomalies can return; the score of the outlier model decides
\* the behavioural alerts
Alerts(m, entity_records) ==
    IF ~m.is_trained \/ entity_records = <<>> THEN {Outcome("detect", "empty")}
    ELSE IF ~IsFitted(m.feature_scaler) \/ ~IsFitted(m.anomaly_detector)
         THEN {Outcome("detect", "raised")}
    ELSE {[Outcome("detect", "alerts") EXCEPT
             !.used = [NoUse EXCEPT !.feature_scaler = m.feature_scaler.fit,
                                    !.anomaly_detector = m.anomaly_detector.fit],
             !.absence = CheckAbsenceAnomaly(m, entity_records),
             !.absence_minutes = IF CheckAbsenceAnomaly(m, entity_records) = "none" THEN 0
                                 ELSE TimeSinceLast(entity_records),
             !.behavioral = behavioral] :
          behavioral \in 0..Len(entity_records)}

----------------------------------------------------------------------------
\* PredictiveMonitor: operations

MonitorInit ==
    /\ monitor = NewMonitor
    /\ monitor_result = NoCall
    /\ swap_succeeded = FALSE
    /\ monitor_calls = 0

\* train_predictive_models(training_data, entity_profiles)
TrainPredictiveModels ==
    /\ monitor_calls < MaxMonitorCalls
    /\ \E training_data \in TrainingDataSets :
          LET trained == Trained(monitor, training_data, TrainFit(monitor_calls + 1))
          IN  /\ monitor' = trained.monitor
              /\ monitor_result' = Outcome("train", trained.kind)
              /\ swap_succeeded' = (swap_succeeded \/ trained.kind = "performance")
    /\ monitor_calls' = monitor_calls + 1
    /\ UNCHANGED <<model_files, notMonitor>>

\* load_models(model_path)
LoadModels ==
    /\ monitor_calls < MaxMonitorCalls
    /\ \E model_path \in ModelPaths :
          LET loaded == Loaded(monitor, model_files[model_path])
          IN  /\ monitor' = loaded.monitor
              /\ monitor_result' = Outcome("load", loaded.kind)
              /\ swap_succeeded' = (swap_succeeded \/ loaded.kind = "loaded")
    /\ monitor_calls' = monitor_calls + 1
    /\ UNCHANGED <<model_files, notMonitor>>

\* save_models(model_path)
SaveModelsCall ==
    /\ monitor_calls < MaxMonitorCalls
    /\ \E model_path \in SavePaths :
          model_files' = SaveModels(monitor, model_files, model_path)
    /\ monitor_result' = Outcome("save", IF monitor.is_trained THEN "saved" ELSE "none")
    /\ monitor_calls' = monitor_calls + 1
    /\ UNCHANGED <<monitor, swap_succeeded, notMonitor>>

\* predict_missing_data(entity_id, timestamp, context_records, entity_profile)
PredictMissingData ==
    /\ monitor_calls < MaxMonitorCalls
    /\ \E request \in PredictionRequests :
          monitor_result' = Prediction(monitor, request)
    /\ monitor_calls' = monitor_calls + 1
    /\ UNCHANGED <<monitor, model_files, swap_succeeded, notMonitor>>

\* detect_anomalies(entity_records, entity_profile)
DetectAnomalies ==
    /\ monitor_calls < MaxMonitorCalls
    /\ \E entity_records \in DetectionRequests :
          monitor_result' \in Alerts(monitor, entity_records)
    /\ monitor_calls' = monitor_calls + 1
    /\ UNCHANGED <<monitor, model_files, swap_succeeded, notMonitor>>

----------------------------------------------------------------------------
\* Calls from several threads on one trained monitor and one resolver.
\* No method takes a lock; a thread switch can fall between any two
\* statements. A step below is one statement that reads or writes a field of
\* the shared object (lines 271 to 279 of predict_missing_data are one step).

Threads == {"swap", "reader", "resolve", "find"}

SwapTrainingSets ==
    {<<TrainingRecordPool[1], TrainingRecordPool[2]>>, <<TrainingRecordPool[1]>>}

\* the monitor the threads share: trained once, by the first call on it
ServingMonitor ==
    Trained(NewMonitor, <<TrainingRecordPool[1], TrainingRecordPool[2]>>, TrainFit(1)).monitor

ServingFiles ==
    [path \in ModelPaths |->
        IF path = "models/full.pkl" THEN SavedElsewhere(1)
        ELSE IF path = "models/partial.pkl" THEN Without(SavedElsewhere(2), "anomaly_detector")
        ELSE NoFile]

\* the data the resolver has resolved, and the data of the next call
ServingData ==
    [profiles |-> <<ProfilePool[1]>>, card_swipes |-> <<SwipePool[1]>>,
     wifi_logs |-> <<>>, cctv_frames |-> <<>>, notes |-> <<>>]

RefreshedData ==
    {[ServingData EXCEPT !.profiles = <<ProfilePool[1], ProfilePool[3]>>],
     [ServingData EXCEPT !.card_swipes = <<>>]}

ServingGraph == BuildEntityGraph(EmptyGraph, FindEntityMatches(ExtractEntityRecords(ServingData)))

ServingTables ==
    CreateResolvedEntities(ServingGraph, ClusterEntities(ServingGraph),
                           ExtractEntityRecords(ServingData))

FindRequests == {<<"E1", NONE>>, <<"C1", "card_ids">>}

NoSwap ==
    [op |-> "none", kind |-> "none", fit |-> NoFit, training_data |-> <<>>,
     model_path |-> NONE, model_data |-> NoFile, next |-> 1]
NoRead == Outcome("none", "none")
NoResolve == [old_entities |-> <<>>, new_entities |-> <<>>]
NoFind == [identifier |-> NONE, identifier_type |-> NONE, entities |-> <<>>]

ThreadsIdle ==
    /\ pc = [thread \in Threads |-> "idle"]
    /\ swap_frame = NoSwap
    /\ read_frame = NoRead
    /\ resolve_frame = NoResolve
    /\ find_frame = NoFind

Goto(thread, label) == pc' = [pc EXCEPT ![thread] = label]

\* ---- the swap thread: train_predictive_models or load_models

SwapOnly ==
    UNCHANGED <<model_files, monitor_result, read_frame, resolve_frame, find_frame,
                resolverVars, fusionVars, timelineVars>>

StartTrain ==
    /\ pc.swap = "idle"
    /\ \E training_data \in SwapTrainingSets :
          swap_frame' = [NoSwap EXCEPT !.op = "train", !.kind = "running",
                                       !.training_data = training_data,
                                       !.fit = TrainFit(monitor_calls + 1)]
    /\ monitor_calls' = monitor_calls + 1
    /\ Goto("swap", "prepare")
    /\ UNCHANGED <<monitor, swap_succeeded>>
    /\ SwapOnly

\* lines 74 to 90
TrainPrepare ==
    /\ pc.swap = "prepare"
    /\ LET training_data == swap_frame.training_data
           prepared == PrepareTrainingData(monitor, training_data, swap_frame.fit)
           stops == \/ training_data = <<>>
                    \/ prepared.raised
                    \/ prepared.samples = 0
                    \/ SplitSizes(prepared.samples).train = 0
       IN  /\ monitor' = IF training_data = <<>> THEN monitor ELSE prepared.monitor
           /\ swap_frame' = [swap_frame EXCEPT !.kind =
                 IF stops THEN Trained(monitor, training_data, swap_frame.fit).kind
                 ELSE "running"]
           /\ Goto("swap", IF stops THEN "done" ELSE "write")
    /\ UNCHANGED <<swap_succeeded, monitor_calls>>
    /\ SwapOnly

\* one of lines 93 to 126
TrainWrite ==
    /\ pc.swap = "write"
    /\ LET last == swap_frame.next = Len(TrainStatements)
       IN  /\ monitor' = TrainStatement(monitor, TrainStatements[swap_frame.next],
                                        swap_frame.fit)
           /\ swap_frame' = [swap_frame EXCEPT
                               !.next = @ + 1,
                               !.kind = IF last THEN "performance" ELSE "running"]
           /\ swap_succeeded' = (swap_succeeded \/ last)
           /\ Goto("swap", IF last THEN "done" ELSE "write")
    /\ UNCHANGED monitor_calls
    /\ SwapOnly

StartLoad ==
    /\ pc.swap = "idle"
    /\ \E model_path \in ModelPaths :
          swap_frame' = [NoSwap EXCEPT !.op = "load", !.kind = "running",
                                       !.model_path = model_path]
    /\ monitor_calls' = monitor_calls + 1
    /\ Goto("swap", "read")
    /\ UNCHANGED <<monitor, swap_succeeded>>
    /\ SwapOnly

\* line 544
LoadRead ==
    /\ pc.swap = "read"
    /\ LET model_data == model_files[swap_frame.model_path]
       IN  /\ swap_frame' = [swap_frame EXCEPT
                               !.model_data = model_data,
                               !.kind = IF model_data.exists THEN "running" ELSE "failed"]
           /\ Goto("swap", IF model_data.exists THEN "assign" ELSE "done")
    /\ UNCHANGED <<monitor, swap_succeeded, monitor_calls>>
    /\ SwapOnly

\* one of lines 546 to 550
LoadAssign ==
    /\ pc.swap = "assign"
    /\ LET key == ModelKeys[swap_frame.next]
           found == key \in swap_frame.model_data.keys
       IN  /\ monitor' = IF found THEN LoadKey(monitor, swap_frame.model_data, key)
                         ELSE monitor
           /\ swap_frame' = [swap_frame EXCEPT
                               !.next = IF found THEN @ + 1 ELSE @,
                               !.kind = IF found THEN "running" ELSE "failed"]
           /\ Goto("swap", IF ~found THEN "done"
                           ELSE IF swap_frame.next = Len(ModelKeys) THEN "config"
                           ELSE "assign")
    /\ UNCHANGED <<swap_succeeded, monitor_calls>>
    /\ SwapOnly

\* line 551
LoadSetConfig ==
    /\ pc.swap = "config"
    /\ monitor' = LoadConfig(monitor, swap_frame.model_data)
    /\ Goto("swap", "set_loaded")
    /\ UNCHANGED <<swap_frame, swap_succeeded, monitor_calls>>
    /\ SwapOnly

\* line 553
LoadFinish ==
    /\ pc.swap = "set_loaded"
    /\ monitor' = SetTrained(monitor)
    /\ swap_frame' = [swap_frame EXCEPT !.kind = "loaded"]
    /\ swap_succeeded' = TRUE
    /\ Goto("swap", "done")
    /\ UNCHANGED monitor_calls
    /\ SwapOnly

\* ---- the reader thread: predict_missing_data or detect_anomalies

ReaderOnly ==
    UNCHANGED <<monitor, model_files, swap_succeeded, swap_frame, resolve_frame, find_frame,
                resolverVars, fusionVars, timelineVars>>

\* the call returns result, or raises
ReaderReturns(result) ==
    /\ read_frame' = result
    /\ monitor_result' = result
    /\ Goto("reader", "done")
    /\ UNCHANGED monitor_calls
    /\ ReaderOnly

ReaderGoes(label, frame) ==
    /\ read_frame' = frame
    /\ Goto("reader", label)
    /\ UNCHANGED <<monitor_result, monitor_calls>>
    /\ ReaderOnly

StartPredict ==
    /\ pc.reader = "idle"
    /\ read_frame' = Outcome("predict", "running")
    /\ monitor_calls' = monitor_calls + 1
    /\ Goto("reader", "check")
    /\ UNCHANGED monitor_result
    /\ ReaderOnly

StartDetect ==
    /\ pc.reader = "idle"
    /\ read_frame' = Outcome("detect", "running")
    /\ monitor_calls' = monitor_calls + 1
    /\ Goto("reader", "check")
    /\ UNCHANGED monitor_result
    /\ ReaderOnly

\* line 240 of predict_missing_data, lines 430 to 439 of detect_anomalies
ReaderCheck ==
    /\ pc.reader = "check"
    /\ IF ~monitor.is_trained
       THEN ReaderReturns([read_frame EXCEPT
                !.kind = IF read_frame.op = "predict" THEN "none" ELSE "empty"])
       ELSE ReaderGoes("scaler", [read_frame EXCEPT
                !.absence = IF read_frame.op = "predict" THEN "none"
                            ELSE CheckAbsenceAnomaly(monitor, <<721>>)])

\* line 264, line 445: self.feature_scaler.transform
ReadScaler ==
    /\ pc.reader = "scaler"
    /\ IF ~IsFitted(monitor.feature_scaler)
       THEN ReaderReturns([read_frame EXCEPT !.kind = "raised"])
       ELSE ReaderGoes(IF read_frame.op = "predict" THEN "location" ELSE "anomaly",
                       [read_frame EXCEPT !.used.feature_scaler = monitor.feature_scaler.fit])

\* line 267: self.location_predictor.predict_proba
ReadLocation ==
    /\ pc.reader = "location"
    /\ IF ~IsFitted(monitor.location_predictor)
       THEN ReaderReturns([read_frame EXCEPT !.kind = "raised"])
       ELSE ReaderGoes("activity",
                [read_frame EXCEPT !.used.location_predictor = monitor.location_predictor.fit])

\* line 268: self.activity_predictor.predict_proba
ReadActivity ==
    /\ pc.reader = "activity"
    /\ IF ~IsFitted(monitor.activity_predictor)
       THEN ReaderReturns([read_frame EXCEPT !.kind = "raised"])
       ELSE ReaderGoes("decode",
                [read_frame EXCEPT !.used.activity_predictor = monitor.activity_predictor.fit])

\* lines 271 to 310: classes_ of both classifiers, the label encoders, return
ReadClasses ==
    /\ pc.reader = "decode"
    /\ IF \/ ~IsFitted(monitor.location_predictor)
          \/ ~IsFitted(monitor.activity_predictor)
          \/ ~monitor.label_encoders.location.present
          \/ ~monitor.label_encoders.activity.present
       THEN ReaderReturns([read_frame EXCEPT !.kind = "raised"])
       ELSE ReaderReturns([read_frame EXCEPT
                !.kind = "prediction",
                !.used.location_classes = monitor.location_predictor.fit,
                !.used.activity_classes = monitor.activity_predictor.fit,
                !.used.label_encoders = monitor.label_encoders.location.fit])

\* lines 446 to 454: self.anomaly_detector.decision_function, return
ReadAnomalyDetector ==
    /\ pc.reader = "anomaly"
    /\ IF ~IsFitted(monitor.anomaly_detector)
       THEN ReaderReturns([read_frame EXCEPT !.kind = "raised"])
       ELSE \E behavioral \in {0, 1} :
               ReaderReturns([read_frame EXCEPT
                   !.kind = "alerts",
                   !.behavioral = behavioral,
                   !.used.anomaly_detector = monitor.anomaly_detector.fit])

\* ---- the resolve thread: resolve_entities

ResolveOnly ==
    UNCHANGED <<lookup, find_frame, swap_frame, read_frame, monitorVars, fusionVars,
                timelineVars>>

\* lines 63 to 67
StartResolve ==
    /\ pc.resolve = "idle"
    /\ data' \in RefreshedData
    /\ Goto("resolve", "build_graph")
    /\ UNCHANGED <<entity_graph, resolved_entities, entity_clusters, resolve_calls,
                   resolve_frame>>
    /\ ResolveOnly

\* line 71
ResolveBuildGraph ==
    /\ pc.resolve = "build_graph"
    /\ entity_graph' = BuildEntityGraph(entity_graph,
                                        FindEntityMatches(ExtractEntityRecords(data)))
    /\ Goto("resolve", "assign")
    /\ UNCHANGED <<data, resolved_entities, entity_clusters, resolve_calls, resolve_frame>>
    /\ ResolveOnly

\* lines 75 to 81
ResolveAssign ==
    /\ pc.resolve = "assign"
    /\ entity_clusters' = ClusterEntities(entity_graph)
    /\ resolved_entities' \in
          CreateResolvedEntities(entity_graph, ClusterEntities(entity_graph),
                                 ExtractEntityRecords(data))
    /\ resolve_frame' = [resolve_frame EXCEPT !.new_entities = resolved_entities']
    /\ resolve_calls' = resolve_calls + 1
    /\ Goto("resolve", "done")
    /\ UNCHANGED <<data, entity_graph>>
    /\ ResolveOnly

\* ---- the find thread: get_entity_by_identifier

FindOnly ==
    UNCHANGED <<data, entity_graph, resolved_entities, entity_clusters, resolve_calls,
                resolve_frame, swap_frame, read_frame, monitorVars, fusionVars,
                timelineVars>>

\* line 490: self.resolved_entities.values()
FindBind ==
    /\ pc.find = "idle"
    /\ \E request \in FindRequests :
          find_frame' = [identifier |-> request[1], identifier_type |-> request[2],
                         entities |-> resolved_entities]
    /\ Goto("find", "scan")
    /\ UNCHANGED lookup
    /\ FindOnly

\* lines 490 to 506, over the dictionary bound at line 490
FindScan ==
    /\ pc.find = "scan"
    /\ lookup' = [identifier |-> find_frame.identifier,
                  identifier_type |-> find_frame.identifier_type,
                  result |-> GetEntityByIdentifier(find_frame.entities, find_frame.identifier,
                                                   find_frame.identifier_type)]
    /\ Goto("find", "done")
    /\ UNCHANGED find_frame
    /\ FindOnly

----------------------------------------------------------------------------
\* Specifications: one per pipeline stage, the other stages left as constructed

NoData == [profiles |-> <<>>, card_swipes |-> <<>>, wifi_logs |-> <<>>,
           cctv_frames |-> <<>>, notes |-> <<>>]
NoEntityData == [card_swipes |-> <<>>, cctv_frames |-> <<>>, wifi_logs |-> <<>>,
                 lab_bookings |-> <<>>, library_checkouts |-> <<>>, notes |-> <<>>]

ResolverIdle == data = NoData /\ ResolverInit
FusionIdle ==
    /\ entity_data = NoEntityData
    /\ face_embeddings = [given |-> FALSE, face_ids |-> {}]
    /\ FusionInit

TimelineIdle ==
    /\ caller_records = <<>>
    /\ time_range = [start_time |-> Absent, end_time |-> Absent]
    /\ TimelineInit

MonitorIdle ==
    /\ model_files = [path \in ModelPaths |-> NoFile]
    /\ MonitorInit
    /\ ThreadsIdle

InitResolver ==
    /\ data \in DataSets
    /\ ResolverInit
    /\ FusionIdle
    /\ TimelineIdle
    /\ MonitorIdle

NextResolver == ResolveEntities \/ GetEntity

SpecResolver == InitResolver /\ [][NextResolver]_vars

InitFusion ==
    /\ entity_data \in EntityDataSets
    /\ face_embeddings \in FaceEmbeddingTables
    /\ FusionInit
    /\ ResolverIdle
    /\ TimelineIdle
    /\ MonitorIdle

NextFusion == FuseEntityData

SpecFusion == InitFusion /\ [][NextFusion]_vars

InitTimeline ==
    /\ caller_records \in RecordLists
    /\ time_range \in TimeRanges
    /\ TimelineInit
    /\ ResolverIdle
    /\ FusionIdle
    /\ MonitorIdle

NextTimeline == GenerateTimeline \/ GenerateSummary

SpecTimeline == InitTimeline /\ [][NextTimeline]_vars

InitMonitor ==
    /\ model_files \in FileSystems
    /\ MonitorInit
    /\ ThreadsIdle
    /\ ResolverIdle
    /\ FusionIdle
    /\ TimelineIdle

NextMonitor ==
    \/ TrainPredictiveModels
    \/ LoadModels
    \/ SaveModelsCall
    \/ PredictMissingData
    \/ DetectAnomalies

SpecMonitor == InitMonitor /\ [][NextMonitor]_vars

\* a trained monitor and a resolver that has resolved ServingData, with no
\* call in progress
\* the four stages on one set of inputs, each input empty or not
PipelineData == {NoData, [NoData EXCEPT !.profiles = <<ProfilePool[1], ProfilePool[2]>>]}
PipelineEntityData == {NoEntityData, [NoEntityData EXCEPT !.card_swipes = <<CardRowPool[1]>>]}
PipelineRecords == {<<>>, <<FusionRecordPool[1]>>}

InitPipeline ==
    /\ data \in PipelineData
    /\ ResolverInit
    /\ entity_data \in PipelineEntityData
    /\ face_embeddings = [given |-> FALSE, face_ids |-> {}]
    /\ FusionInit
    /\ caller_records \in PipelineRecords
    /\ time_range = [start_time |-> Absent, end_time |-> Absent]
    /\ TimelineInit
    /\ MonitorIdle

NextPipeline ==
    \/ ResolveEntities
    \/ FuseEntityData
    \/ GenerateTimeline
    \/ TrainPredictiveModels
    \/ DetectAnomalies

SpecPipeline == InitPipeline /\ [][NextPipeline]_vars

InitThreads ==
    /\ monitor = ServingMonitor
    /\ model_files = ServingFiles
    /\ monitor_result = Outcome("train", "performance")
    /\ swap_succeeded = TRUE
    /\ monitor_calls = 1
    /\ data = ServingData
    /\ entity_graph = ServingGraph
    /\ entity_clusters = ClusterEntities(ServingGraph)
    /\ resolved_entities \in ServingTables
    /\ resolve_calls = 1
    /\ lookup = NoLookup
    /\ pc = [thread \in Threads |-> "idle"]
    /\ swap_frame = NoSwap
    /\ read_frame = NoRead
    /\ resolve_frame = [NoResolve EXCEPT !.old_entities = resolved_entities]
    /\ find_frame = NoFind
    /\ FusionIdle
    /\ TimelineIdle

NextThreads ==
    \/ StartTrain \/ TrainPrepare \/ TrainWrite
    \/ StartLoad \/ LoadRead \/ LoadAssign \/ LoadSetConfig \/ LoadFinish
    \/ StartPredict \/ StartDetect \/ ReaderCheck \/ ReadScaler
    \/ ReadLocation \/ ReadActivity \/ ReadClasses \/ ReadAnomalyDetector
    \/ StartResolve \/ ResolveBuildGraph \/ ResolveAssign
    \/ FindBind \/ FindScan

SpecThreads == InitThreads /\ [][NextThreads]_vars

----------------------------------------------------------------------------
\* Claims about the entity resolver

\* C1: after resolve_entities, no identifier value of a kind is in the
\* identifier set of that kind of two distinct resolved entities.
C1_IdentifiersDisjoint ==
    resolve_calls > 0 =>
        \A i, j \in 1..Len(resolved_entities) :
            i # j => \A kind \in IdentifierKinds :
                resolved_entities[i].identifiers[kind]
                    \cap resolved_entities[j].identifiers[kind] = {}

\* C2: after resolve_entities, every extracted record is a member of exactly
\* one cluster, every cluster is a resolved entity, and a record that matches
\* no other record is a cluster of its own with confidence 1.0.
C2_EveryRecordResolved ==
    resolve_calls > 0 =>
        /\ Len(resolved_entities) = Len(entity_clusters)
        /\ \A r \in Range(ExtractEntityRecords(data)) :
              /\ Cardinality({i \in 1..Len(entity_clusters) :
                                 r.record_id \in entity_clusters[i]}) = 1
              /\ \A i \in 1..Len(entity_clusters) :
                    entity_clusters[i] = {r.record_id} =>
                        resolved_entities[i].confidence = Thousandths(1000)

----------------------------------------------------------------------------
\* Claims about the fusion stage

SourceTimes(record) ==
    {record.source_records[i].timestamp : i \in 1..Len(record.source_records)}

WellFormedFusionRecord(record) ==
    /\ FracLE(Thousandths(0), record.confidence)
    /\ FracLE(record.confidence, Thousandths(1000))
    /\ record.timestamp \in SourceTimes(record)
    /\ \A t \in SourceTimes(record) : record.timestamp <= t

\* C3: every fusion record made from a cluster of the last fuse_entity_data
\* call, emitted or filtered out, has a confidence in [0, 1] and the minimum
\* timestamp of its source records.
C3_ConfidenceAndTimestamp ==
    fuse_calls > 0 =>
        /\ \A i \in 1..Len(event_clusters) :
              \A record \in FuseEventCluster(event_clusters[i], face_embeddings) :
                  WellFormedFusionRecord(record)
        /\ \A i \in 1..Len(fused_records) : WellFormedFusionRecord(fused_records[i])

\* a cluster of three sources at one instant, whose unclamped confidence is 1.05
C3_Witness ==
    /\ fuse_calls > 0
    /\ face_embeddings.given
    /\ \E i \in 1..Len(fused_records) :
          /\ Len(fused_records[i].source_records) >= 3
          /\ fused_records[i].confidence = Thousandths(1000)
    /\ \E i \in 1..Len(event_clusters) :
          \E record \in FuseEventCluster(event_clusters[i], face_embeddings) :
              FracLT(record.confidence, Thousandths(confidence_threshold))

\* the indices of the clusters whose fused record reaches the threshold
KeptClusters ==
    {i \in 1..Len(event_clusters) :
        \E record \in FuseEventCluster(event_clusters[i], face_embeddings) :
            FracLE(Thousandths(confidence_threshold), record.confidence)}

\* C4: the list returned by fuse_entity_data is in non-decreasing timestamp
\* order and holds exactly the fused cluster records with confidence >=
\* confidence_threshold: none below it, and one per cluster at or above it.
C4_SortedAndFiltered ==
    fuse_calls > 0 =>
        /\ \A i \in 1..(Len(fused_records) - 1) :
              fused_records[i].timestamp <= fused_records[i + 1].timestamp
        /\ \A i \in 1..Len(fused_records) :
              /\ FracLE(Thousandths(confidence_threshold), fused_records[i].confidence)
              /\ \E k \in KeptClusters :
                    fused_records[i] \in FuseEventCluster(event_clusters[k], face_embeddings)
        /\ \A k \in KeptClusters :
              \E i \in 1..Len(fused_records) :
                  fused_records[i] \in FuseEventCluster(event_clusters[k], face_embeddings)
        /\ Len(fused_records) = Cardinality(KeptClusters)

\* two records are emitted, one of them at exactly the threshold, and one
\* cluster is filtered out
C4_Witness ==
    /\ fuse_calls > 0
    /\ Len(fused_records) >= 2
    /\ Len(fused_records) < Len(event_clusters)
    /\ \E i \in 1..Len(fused_records) :
          fused_records[i].confidence = Thousandths(confidence_threshold)

----------------------------------------------------------------------------
\* Timeline claims

IsGapEvent(event) == event.activity = "gap"

GapLimitMinutes == max_gap_hours * 60

\* the number of observed (non-gap) events among the first i timeline events
ObservedUpTo(i) == Cardinality({j \in 1..i : ~IsGapEvent(timeline[j])})

GroupTimes(event_group) == {event_group[i].timestamp : i \in 1..Len(event_group)}

\* C5: in the list generate_timeline returns a gap event stands between two
\* consecutive merged non-gap events if and only if their timestamps differ by
\* more than max_gap_hours (strictly), and then exactly one; a gap event is
\* never the first or the last event and never next to another gap event.
C5_GapIffDistant ==
    timeline_calls > 0 =>
        LET n == Len(timeline)
        IN  /\ n > 0 => ~IsGapEvent(timeline[1]) /\ ~IsGapEvent(timeline[n])
            /\ \A i \in 1..(n - 1) :
                  /\ ~(IsGapEvent(timeline[i]) /\ IsGapEvent(timeline[i + 1]))
                  /\ (~IsGapEvent(timeline[i]) /\ ~IsGapEvent(timeline[i + 1]))
                        => timeline[i + 1].timestamp - timeline[i].timestamp <= GapLimitMinutes
            /\ \A i \in 2..(n - 1) :
                  IsGapEvent(timeline[i])
                     => timeline[i + 1].timestamp - timeline[i - 1].timestamp > GapLimitMinutes
            /\ ObservedUpTo(n) = Len(event_groups)

\* a timeline with one gap, after a pair of events exactly max_gap_hours
\* apart that has none
C5_Witness ==
    /\ timeline_calls > 0
    /\ \E i \in 1..Len(timeline) : IsGapEvent(timeline[i])
    /\ \E i \in 1..(Len(timeline) - 1) :
          /\ ~IsGapEvent(timeline[i]) /\ ~IsGapEvent(timeline[i + 1])
          /\ timeline[i + 1].timestamp - timeline[i].timestamp = GapLimitMinutes

\* C6: for every gap event of the timeline, the time from the latest original
\* record of the group before the gap to the first record after it is longer
\* than max_gap_hours.
C6_GapIsRealSilence ==
    timeline_calls > 0 =>
        \A i \in 2..(Len(timeline) - 1) :
            IsGapEvent(timeline[i]) =>
                LET k == ObservedUpTo(i)
                IN  SetMin(GroupTimes(event_groups[k + 1]))
                        - SetMax(GroupTimes(event_groups[k])) > GapLimitMinutes

\* C7: all originals of a group have one location and consecutive originals
\* are at most 5 minutes apart; consecutive input events at one location at
\* most 5 minutes apart are never split over two groups; the groups are the
\* time-sorted input events, and every group gives one timeline event that
\* starts at its earliest original.
C7_MergedGroups ==
    timeline_calls > 0 =>
        /\ \A k \in 1..Len(event_groups) :
              \A i \in 1..(Len(event_groups[k]) - 1) :
                  /\ event_groups[k][i].location = event_groups[k][i + 1].location
                  /\ event_groups[k][i + 1].timestamp - event_groups[k][i].timestamp >= 0
                  /\ event_groups[k][i + 1].timestamp - event_groups[k][i].timestamp <= 5
        /\ \A k \in 1..(Len(event_groups) - 1) :
              LET last_event == event_groups[k][Len(event_groups[k])]
                  event == event_groups[k + 1][1]
              IN  /\ event.timestamp >= last_event.timestamp
                  /\ ~(/\ event.location = last_event.location
                       /\ event.timestamp - last_event.timestamp <= 5)
        /\ \A k \in 1..Len(event_groups) : event_groups[k] # <<>>
        /\ SeqSum([k \in 1..Len(event_groups) |-> Len(event_groups[k])])
              = Len(FilterByTimeRange(caller_records, time_range))
        /\ \A i \in 1..Len(timeline) :
              ~IsGapEvent(timeline[i]) =>
                  LET event_group == event_groups[ObservedUpTo(i)]
                  IN  /\ timeline[i].timestamp = SetMin(GroupTimes(event_group))
                      /\ timeline[i].location = event_group[1].location
                      /\ Len(timeline[i].related_events) = Len(event_group) - 1

\* a chain of three originals merged into one event whose first and last
\* original are more than 5 minutes apart
C7_Witness ==
    /\ timeline_calls > 0
    /\ \E k \in 1..Len(event_groups) :
          /\ Len(event_groups[k]) = 3
          /\ event_groups[k][3].timestamp - event_groups[k][1].timestamp > 5
    /\ \E i \in 1..Len(timeline) : Len(timeline[i].related_events) = 2

----------------------------------------------------------------------------
\* Monitor claims

\* the step is a call of op on the monitor
MonitorCall(op) == monitor_calls' = monitor_calls + 1 /\ monitor_result'.op = op

\* C8: as long as no train_predictive_models or load_models call has
\* succeeded, every predict_missing_data call returns None, does not raise,
\* and leaves the monitor and the model files as they were.
C8_UntrainedPredictAbsent ==
    [][(MonitorCall("predict") /\ ~swap_succeeded)
          => /\ monitor_result'.kind = "none"
             /\ monitor' = monitor
             /\ model_files' = model_files]_vars

\* None was returned on a monitor whose earlier training raised after fitting the label encoders and whose
\* earlier load stopped after replacing the location classifier
C8_Witness ==
    /\ ~swap_succeeded
    /\ monitor_result = Outcome("predict", "none")
    /\ monitor.label_encoders.location.fit = TrainFit(1)
    /\ monitor.location_predictor.fit = BlobFit(2)
    /\ ~IsFitted(monitor.feature_scaler)

\* C9: a load_models call either installs every artefact of the file and
\* leaves the monitor trained, or fails, replaces no artefact and leaves the
\* monitor untrained, so that predict_missing_data returns None afterwards.
C9_LoadAtomic ==
    [][MonitorCall("load")
          => \/ /\ monitor_result'.kind = "loaded"
                /\ monitor'.is_trained
                /\ \E path \in ModelPaths :
                      /\ model_files[path].exists
                      /\ \A i \in 1..Len(ModelKeys) :
                            monitor'[ModelKeys[i]] = model_files[path][ModelKeys[i]]
             \/ /\ monitor_result'.kind = "failed"
                /\ \A i \in 1..Len(ModelKeys) :
                      monitor'[ModelKeys[i]] = monitor[ModelKeys[i]]
                /\ ~monitor'.is_trained
                /\ \A request \in PredictionRequests :
                      Prediction(monitor', request).kind = "none"]_vars

----------------------------------------------------------------------------
\* Thread claims

\* the fits of the scaler, classifiers and outlier model a call computed
\* with (the label encoders are kept across retraining by line 165)
Generations(used) ==
    {used.feature_scaler, used.location_predictor, used.activity_predictor,
     used.location_classes, used.activity_classes, used.anomaly_detector} \ {NoFit}

\* C10: a predict_missing_data or detect_anomalies call that runs while
\* train_predictive_models or load_models runs on the trained monitor does
\* not fail on an artefact that is not yet fitted and computes with artefacts
\* of one fit only; a get_entity_by_identifier call that runs while
\* resolve_entities runs scans the whole table of before or the whole new one.
C10_NoHalfBuiltState ==
    /\ pc.reader = "done" =>
          /\ read_frame.kind # "raised"
          /\ Cardinality(Generations(read_frame.used)) <= 1
    /\ pc.find = "done" =>
          \/ find_frame.entities = resolve_frame.old_entities
          \/ pc.resolve = "done" /\ find_frame.entities = resolve_frame.new_entities

----------------------------------------------------------------------------
\* Detection and fusion confidence claims

\* the absence alert the rule of absence asks for: none, medium or high
AbsenceDue(m, entity_records) ==
    LET age == TimeSinceLast(entity_records)
    IN  IF age > 24 * 60 /\ age > m.config.alert_absence_hours * 60 THEN "high"
        ELSE IF age > m.config.alert_absence_hours * 60 THEN "medium"
        ELSE "none"

\* C11: on every non-empty record list detect_anomalies returns alerts with
\* one absence alert exactly when the most recent record is older than
\* alert_absence_hours, high above 24 h and medium otherwise, its evidence
\* holding the duration of the absence.
C11_AbsenceAlert ==
    monitor_result.op = "detect" =>
        \A entity_records \in DetectionRequests \ {<<>>} :
            \A result \in Alerts(monitor, entity_records) :
                /\ result.kind # "raised"
                /\ result.absence = AbsenceDue(monitor, entity_records)
                /\ result.absence # "none"
                      => result.absence_minutes = TimeSinceLast(entity_records)

\* C12: without face embeddings, a fusion record made of a single event has
\* the base confidence of that event.
C12_SingleEventConfidence ==
    (fuse_calls > 0 /\ ~face_embeddings.given) =>
        \A i \in 1..Len(fused_records) :
            Len(fused_records[i].source_records) = 1
               => fused_records[i].confidence
                     = Thousandths(fused_records[i].source_records[1].confidence)

\* the events of an entity seen once by card, once on camera and once on
\* wifi, at one location and within 8 minutes
ThreeSourcesAgree ==
    LET events == ExtractActivityEvents(entity_data)
    IN  /\ Len(entity_data.card_swipes) = 1
        /\ Len(entity_data.cctv_frames) = 1
        /\ Len(entity_data.wifi_logs) = 1
        /\ Len(events) = 3
        /\ \A i, j \in 1..3 : events[i].location = events[j].location
        /\ SetMax(EventTimes(events)) - SetMin(EventTimes(events)) <= 8

\* C13: for such an entity fuse_entity_data returns exactly one record and
\* its confidence is above 0.95, 0.85 and 0.75.
C13_CorroborationRaisesConfidence ==
    (fuse_calls > 0 /\ ThreeSourcesAgree) =>
        /\ Len(fused_records) = 1
        /\ FracLT(Thousandths(950), fused_records[1].confidence)

----------------------------------------------------------------------------
\* Resolver claims

\* two profile records of distinct entities that share no card, device or
\* face and whose names are equal up to case and whitespace
SameNameOnly(r1, r2) ==
    /\ r1.dataset = "profiles" /\ r2.dataset = "profiles"
    /\ r1.entity_id # r2.entity_id
    /\ \A field \in {"card_id", "device_hash", "face_id"} : ~CheckDirectMatch(r1, r2, field)
    /\ CalculateNameSimilarity(r1, r2) = 100

\* C14: after resolve_entities two such profiles are in one resolved entity
\* holding both entity_ids, and its confidence is at least 0.85.
C14_SameNameOneCluster ==
    resolve_calls > 0 =>
        \A r1, r2 \in Range(ExtractEntityRecords(data)) :
            SameNameOnly(r1, r2) =>
                \E i \in 1..Len(resolved_entities) :
                    /\ {r1.entity_id, r2.entity_id} \subseteq resolved_entities[i].entity_ids
                    /\ FracLE(Thousandths(850), resolved_entities[i].confidence)

\* the edges of the graph between two members of a cluster
InducedEdges(cluster) ==
    {e \in entity_graph.edges : e.u \in cluster /\ e.v \in cluster}

\* C15: every kept cluster of two or more records has a mean edge weight of
\* at least fuzzy_match_threshold over the edges between its members, and
\* the confidence of its resolved entity is that mean; the confidence of a
\* singleton is 1.0.
C15_ClusterMeanWeight ==
    resolve_calls > 0 =>
        \A i \in 1..Len(entity_clusters) :
            LET edges == InducedEdges(entity_clusters[i])
                total == WeightSum(edges)
            IN  IF Cardinality(entity_clusters[i]) >= 2
                THEN /\ edges # {}
                     /\ total >= fuzzy_match_threshold * Cardinality(edges)
                     /\ resolved_entities[i].confidence = Frac(total, Cardinality(edges))
                ELSE resolved_entities[i].confidence = Thousandths(1000)

\* a kept cluster of three records whose two edges differ in weight
C15_Witness ==
    /\ resolve_calls > 0
    /\ \E i \in 1..Len(entity_clusters) :
          /\ Cardinality(entity_clusters[i]) >= 3
          /\ \E e1, e2 \in InducedEdges(entity_clusters[i]) : e1.weight < e2.weight
          /\ FracLT(Thousandths(fuzzy_match_threshold), resolved_entities[i].confidence)

\* what a resolver as constructed returns for an input, without the
\* primary profiles: per cluster its records, entity ids, identifier sets
\* and confidence
Assignments(table, clusters) ==
    {[records |-> clusters[i], entity_ids |-> table[i].entity_ids,
      identifiers |-> table[i].identifiers, confidence |-> table[i].confidence] :
        i \in 1..Len(table)}

FreshGraph(d) == BuildEntityGraph(EmptyGraph, FindEntityMatches(ExtractEntityRecords(d)))

FreshAssignments(d) ==
    {Assignments(table, ClusterEntities(FreshGraph(d))) :
        table \in CreateResolvedEntities(FreshGraph(d), ClusterEntities(FreshGraph(d)),
                                         ExtractEntityRecords(d))}

\* C16: every call of resolve_entities, the first on a resolver and a later
\* one alike, leaves the graph and the assignment of records to entities
\* that a fresh resolver computes for the input of that call, so two calls on
\* the same input agree and nothing of an earlier call is left.
C16_ResolveIdempotent ==
    [][resolve_calls' = resolve_calls + 1 =>
          /\ entity_graph' = FreshGraph(data')
          /\ Len(resolved_entities') = Len(entity_clusters')
          /\ Assignments(resolved_entities', entity_clusters') \in FreshAssignments(data')
          /\ (resolve_calls > 0 /\ data' = data) =>
                /\ entity_graph' = entity_graph
                /\ entity_clusters' = entity_clusters
                /\ Assignments(resolved_entities', entity_clusters')
                      = Assignments(resolved_entities, entity_clusters)]_vars

\* after two calls, the last on an input without card swipes, the graph has
\* an edge and a cluster of two or more records
C16_Witness ==
    /\ resolve_calls = 2
    /\ data.card_swipes = <<>>
    /\ entity_graph.edges # {}
    /\ \E i \in 1..Len(entity_clusters) : Cardinality(entity_clusters[i]) >= 2

\* C17: a lookup with a kind given returns an entity only if the identifier
\* is in that entity's identifier set of the kind, and None otherwise, also
\* for a value that is an entity_id or is in a set of another kind.
C17_LookupRestrictedToKind ==
    [][(lookup' # lookup /\ lookup'.identifier_type # NONE) =>
          IF \E i \in 1..Len(resolved_entities) :
                 lookup'.identifier \in resolved_entities[i].identifiers[lookup'.identifier_type]
          THEN /\ lookup'.result # 0
               /\ lookup'.identifier
                     \in resolved_entities[lookup'.result].identifiers[lookup'.identifier_type]
          ELSE lookup'.result = 0]_vars

----------------------------------------------------------------------------
\* Claims about the inputs of the timeline stage

\* in timestamp order, and no two consecutive records at one location within
\* the merge window
SortedAndMerged(records) ==
    \A i \in 1..(Len(records) - 1) :
        /\ records[i].timestamp <= records[i + 1].timestamp
        /\ ~(/\ records[i].location = records[i + 1].location
             /\ records[i + 1].timestamp - records[i].timestamp <= 5)

ObservedEvents(events) == SelectSeq(events, LAMBDA event : ~IsGapEvent(event))

\* C18: when the fusion records passed to generate_timeline are in timestamp
\* order and no two consecutive ones are at the same location within 5
\* minutes, the non-gap events returned are, one for one and in order, the
\* records of the input (those in the time range, when one is given) with
\* their timestamp, location, activity and confidence.
C18_NoMergeOnMergedInput ==
    [][(timeline_calls' = timeline_calls + 1 /\ SortedAndMerged(caller_records)) =>
          LET records == FilterByTimeRange(caller_records, time_range)
              events == ObservedEvents(timeline')
          IN  /\ Len(events) = Len(records)
              /\ \A i \in 1..Len(records) :
                    /\ events[i].timestamp = records[i].timestamp
                    /\ events[i].location = records[i].location
                    /\ events[i].activity = records[i].activity_type
                    /\ events[i].confidence = Thousandths(records[i].confidence)
                    /\ events[i].related_events = <<>>]_vars

\* a timeline of three observed events and a gap, made from a sorted input
\* with two records at one time at different locations and two records at
\* one location more than 5 minutes apart
C18_Witness ==
    /\ timeline_calls > 0
    /\ FilterReturnsSameList(time_range)
    /\ SortedAndMerged(caller_records)
    /\ Len(caller_records) = 3
    /\ Len(ObservedEvents(timeline)) = 3
    /\ \E i \in 1..2 : /\ caller_records[i].location # caller_records[i + 1].location
                       /\ caller_records[i + 1].timestamp - caller_records[i].timestamp <= 5
    /\ \E i \in 1..2 : caller_records[i].location = caller_records[i + 1].location
    /\ \E i \in 1..Len(timeline) : IsGapEvent(timeline[i])

----------------------------------------------------------------------------
\* Claims about the whole pipeline

\* C19: every stage returns an empty result for an empty input and does not
\* raise: resolve_entities without records, fuse_entity_data without source
\* rows, generate_timeline without fusion records, and detect_anomalies with
\* an empty record list on any monitor.
C19_EmptyInEmptyOut ==
    /\ (resolve_calls > 0 /\ ExtractEntityRecords(data) = <<>>)
          => (resolved_entities = <<>> /\ entity_clusters = <<>>)
    /\ (fuse_calls > 0 /\ ExtractActivityEvents(entity_data) = <<>>)
          => (fused_records = <<>> /\ event_clusters = <<>>)
    /\ (timeline_calls > 0 /\ caller_records = <<>>) => timeline = <<>>
    /\ \A result \in Alerts(monitor, <<>>) :
          /\ result.kind = "empty"
          /\ result.absence = "none"
          /\ result.behavioral = 0

\* every stage was called on an empty input, the monitor being trained
C19_Witness ==
    /\ resolve_calls > 0 /\ data = NoData /\ resolved_entities = <<>>
    /\ fuse_calls > 0 /\ entity_data = NoEntityData /\ fused_records = <<>>
    /\ timeline_calls > 0 /\ caller_records = <<>> /\ timeline = <<>>
    /\ monitor.is_trained
    /\ IsFitted(monitor.feature_scaler) /\ IsFitted(monitor.anomaly_detector)
    /\ monitor_result = Outcome("detect", "empty")

\* C20: generate_timeline leaves the caller's list of fusion records as it
\* was, the same records in the same order, with or without a time range.
C20_InputNotMutated ==
    [][timeline_calls' = timeline_calls + 1 => caller_records' = caller_records]_vars

----------------------------------------------------------------------------
\* Claims about the comparison of two records

\* the contribution of each channel whose gate is passed, in thousandths
Contributions(r1, r2) ==
    [card_id |-> IF CheckDirectMatch(r1, r2, "card_id") THEN 950 ELSE 0,
     device_hash |-> IF CheckDirectMatch(r1, r2, "device_hash") THEN 900 ELSE 0,
     face_id |-> IF CheckDirectMatch(r1, r2, "face_id") THEN 850 ELSE 0,
     name |-> IF CalculateNameSimilarity(r1, r2) * 10 > name_similarity_threshold
              THEN CalculateNameSimilarity(r1, r2) * 8 ELSE 0,
     email |-> IF CalculateEmailSimilarity(r1, r2) > 80
               THEN CalculateEmailSimilarity(r1, r2) * 7 ELSE 0,
     temporal |-> IF CalculateTemporalCorrelation(r1, r2) > 500
                  THEN (CalculateTemporalCorrelation(r1, r2) * 6) \div 10 ELSE 0,
     location |-> IF CalculateLocationCorrelation(r1, r2) > 500
                  THEN CalculateLocationCorrelation(r1, r2) \div 2 ELSE 0]

PairConfidence(r1, r2) ==
    IF r1.entity_id # NONE /\ r1.entity_id = r2.entity_id THEN 1000
    ELSE SetMax({Contributions(r1, r2)[channel] : channel \in DOMAIN Contributions(r1, r2)})

\* the edges of the graph between the records r1 and r2
EdgesBetween(r1, r2) ==
    {e \in entity_graph.edges : {e.u, e.v} = {r1.record_id, r2.record_id}}

\* C21: after resolve_entities, two records are joined by a match if and
\* only if their pair confidence, 1.0 for a shared entity_id and otherwise
\* the largest channel contribution, is at least fuzzy_match_threshold, and
\* the match carries that confidence.
C21_PairConfidenceIsMax ==
    resolve_calls > 0 =>
        LET records == ExtractEntityRecords(data)
        IN  \A i, j \in 1..Len(records) :
                i < j =>
                    IF PairConfidence(records[i], records[j]) >= fuzzy_match_threshold
                    THEN /\ Cardinality(EdgesBetween(records[i], records[j])) = 1
                         /\ \A e \in EdgesBetween(records[i], records[j]) :
                               e.weight = PairConfidence(records[i], records[j])
                    ELSE EdgesBetween(records[i], records[j]) = {}

\* a pair matched on a shared entity_id, and an unmatched pair whose name and
\* e-mail contributions are each below the threshold and together above it
C21_Witness ==
    /\ resolve_calls > 0
    /\ LET records == ExtractEntityRecords(data)
       IN  /\ \E i, j \in 1..Len(records) :
                 /\ i < j
                 /\ records[i].entity_id # NONE
                 /\ records[i].entity_id = records[j].entity_id
                 /\ EdgesBetween(records[i], records[j]) # {}
           /\ \E i, j \in 1..Len(records) :
                 /\ i < j
                 /\ Contributions(records[i], records[j]).name > 0
                 /\ Contributions(records[i], records[j]).email > 0
                 /\ Contributions(records[i], records[j]).name
                       + Contributions(records[i], records[j]).email >= fuzzy_match_threshold
                 /\ EdgesBetween(records[i], records[j]) = {}

----------------------------------------------------------------------------
\* Claims about the clusters of the fusion stage

RECURSIVE Flattened(_)
Flattened(lists) == IF lists = <<>> THEN <<>> ELSE Head(lists) \o Flattened(Tail(lists))

Occurrences(s, x) == Cardinality({i \in 1..Len(s) : s[i] = x})

\* C22: the clusters of fuse_entity_data are the events in timestamp order
\* cut into runs: every event is in exactly one cluster, two consecutive
\* events of a cluster are at most max_time_gap_minutes apart, and the first
\* event of a cluster is more than max_time_gap_minutes after the last event
\* of the cluster before it.
C22_ClustersAreRuns ==
    fuse_calls > 0 =>
        LET events == ExtractActivityEvents(entity_data)
            flat == Flattened(event_clusters)
        IN  /\ Len(flat) = Len(events)
            /\ \A i \in 1..Len(events) :
                  Occurrences(flat, events[i]) = Occurrences(events, events[i])
            /\ \A i \in 1..(Len(flat) - 1) : flat[i].timestamp <= flat[i + 1].timestamp
            /\ \A k \in 1..Len(event_clusters) :
                  /\ event_clusters[k] # <<>>
                  /\ \A i \in 1..(Len(event_clusters[k]) - 1) :
                        event_clusters[k][i + 1].timestamp - event_clusters[k][i].timestamp
                            <= max_time_gap_minutes
            /\ \A k \in 1..(Len(event_clusters) - 1) :
                  event_clusters[k + 1][1].timestamp
                      - event_clusters[k][Len(event_clusters[k])].timestamp
                            > max_time_gap_minutes

\* two events exactly max_time_gap_minutes apart share a cluster, and a
\* later cluster follows
C22_Witness ==
    /\ fuse_calls > 0
    /\ Len(event_clusters) >= 2
    /\ \E k \in 1..Len(event_clusters) :
          \E i \in 1..(Len(event_clusters[k]) - 1) :
              event_clusters[k][i + 1].timestamp - event_clusters[k][i].timestamp
                  = max_time_gap_minutes

\* mean base confidence x count of the events of a cluster at a location
LocationWeight(events, loc) ==
    SeqSum([i \in 1..Len(events) |->
               IF events[i].location = loc THEN events[i].confidence ELSE 0])

\* C23: the location of a fused cluster is a location of greatest mean base
\* confidence x count among the locations of its events other than UNKNOWN,
\* and it is UNKNOWN only when every event of the cluster is at UNKNOWN.
C23_UnknownLocationIgnored ==
    fuse_calls > 0 =>
        \A k \in 1..Len(event_clusters) :
            \A record \in FuseEventCluster(event_clusters[k], face_embeddings) :
                LET events == event_clusters[k]
                    known == {events[i].location : i \in 1..Len(events)} \ {"UNKNOWN"}
                IN  IF known = {} THEN record.location = "UNKNOWN"
                    ELSE /\ record.location \in known
                         /\ \A loc \in known :
                               LocationWeight(events, loc)
                                   <= LocationWeight(events, record.location)

\* the most frequent event types of the source records of a fusion record
MostFrequentTypes(record) ==
    LET types == [i \in 1..Len(record.source_records) |-> record.source_records[i].event_type]
    IN  {t \in Range(types) :
            \A u \in Range(types) : Occurrences(types, u) <= Occurrences(types, t)}

\* C24: the activity of a fusion record is the most frequent event type of
\* its cluster, and among several most frequent types the one that occurs
\* first in the time-sorted cluster.
C24_ActivityTieByFirstOccurrence ==
    fuse_calls > 0 =>
        \A r \in 1..Len(fused_records) :
            LET record == fused_records[r]
                first == SetMin({i \in 1..Len(record.source_records) :
                                    record.source_records[i].event_type
                                        \in MostFrequentTypes(record)})
            IN  record.activity_type = record.source_records[first].event_type

\* a camera event of the cluster has a face_id with a row in the table of
\* face embeddings
FaceSeen(events) ==
    /\ face_embeddings.given
    /\ \E i \in 1..Len(events) :
          /\ events[i].event_type = "cctv_detection"
          /\ events[i].face_id # NONE
          /\ events[i].face_id \in face_embeddings.face_ids

\* C25: the confidence of a fused cluster is its confidence without face
\* embeddings plus 0.10, at most 1, when a camera event of the cluster has a
\* face_id with a row in the face embeddings, and its confidence without
\* face embeddings otherwise.
C25_FaceBonusAdded ==
    fuse_calls > 0 =>
        \A k \in 1..Len(event_clusters) :
            LET events == event_clusters[k]
                plain == CalculateFusionConfidence(events, [given |-> FALSE, face_ids |-> {}])
                face_bonus == IF FaceSeen(events) THEN 100 ELSE 0
                expected == Frac(Min2(plain.num + face_bonus * plain.den, 1000 * plain.den),
                                 plain.den)
            IN  \A record \in FuseEventCluster(events, face_embeddings) :
                    record.confidence = expected

----------------------------------------------------------------------------
\* Claims about the primary profile

\* the place of an entity_id in lexicographic order; the profiles of the
\* pool are listed in that order
LexRank(entity_id) == CHOOSE k \in 1..Len(ProfilePool) : ProfilePool[k].entity_id = entity_id

\* C26: the primary_profile of a resolved entity whose cluster holds profile
\* records is the profile record with the lexicographically smallest
\* entity_id of the cluster.
C26_PrimaryProfileSmallestId ==
    resolve_calls > 0 =>
        \A i \in 1..Len(resolved_entities) :
            LET profiles == {r \in Range(ExtractEntityRecords(data)) :
                                r.dataset = "profiles" /\ r.record_id \in entity_clusters[i]}
            IN  profiles # {} =>
                    /\ resolved_entities[i].primary_profile \in profiles
                    /\ \A r \in profiles :
                          LexRank(resolved_entities[i].primary_profile.entity_id)
                              <= LexRank(r.entity_id)

----------------------------------------------------------------------------
\* Claims about training again

TrainingLabels(training_data, field) ==
    {training_data[i][field] : i \in {k \in 1..Len(training_data) : training_data[k].valid}}

\* training data a monitor as constructed is trained on, with a location or
\* an activity the label encoders of the monitor have not seen
NewLabels(training_data) ==
    /\ Trained(NewMonitor, training_data, TrainFit(1)).kind = "performance"
    /\ \/ ~(TrainingLabels(training_data, "location")
                \subseteq monitor.label_encoders.location.classes)
       \/ ~(TrainingLabels(training_data, "activity_type")
                \subseteq monitor.label_encoders.activity.classes)

\* C27: after a training that returned metrics, train_predictive_models on
\* records with a location or activity that the first training set did not
\* have returns metrics again, with label encoders fitted to the new records,
\* and does not raise.
C27_RetrainWithNewLabels ==
    (monitor_result.op = "train" /\ monitor_result.kind = "performance") =>
        \A training_data \in TrainingDataSets :
            NewLabels(training_data) =>
                LET again == Trained(monitor, training_data, TrainFit(monitor_calls + 1))
                IN  /\ again.kind = "performance"
                    /\ again.monitor.label_encoders.location.classes
                          = TrainingLabels(training_data, "location")
                    /\ again.monitor.label_encoders.activity.classes
                          = TrainingLabels(training_data, "activity_type")

----------------------------------------------------------------------------
\* Claims about the channels that can make a match

SharedIdentifier(r1, r2) ==
    \E field \in {"entity_id", "card_id", "device_hash", "face_id"} :
        CheckDirectMatch(r1, r2, field)

\* C28: with the default thresholds two records are matched only if they
\* share an entity_id, card_id, device_hash or face_id, or their name
\* similarity is 1.0; e-mail similarity, temporal overlap and shared
\* locations never make a match.
C28_WeakChannelsNeverMatch ==
    resolve_calls > 0 =>
        LET records == ExtractEntityRecords(data)
        IN  \A i, j \in 1..Len(records) :
                (i < j /\ EdgesBetween(records[i], records[j]) # {}) =>
                    \/ SharedIdentifier(records[i], records[j])
                    \/ CalculateNameSimilarity(records[i], records[j]) = 100

\* a pair with the same e-mail address and a pair seen at nearly the same
\* time at the same place are both left unmatched, and a pair is matched on
\* the name alone
C28_Witness ==
    /\ resolve_calls > 0
    /\ LET records == ExtractEntityRecords(data)
           pairs == {p \in (1..Len(records)) \X (1..Len(records)) : p[1] < p[2]}
       IN  /\ \E p \in pairs :
                 /\ CalculateEmailSimilarity(records[p[1]], records[p[2]]) = 100
                 /\ EdgesBetween(records[p[1]], records[p[2]]) = {}
           /\ \E p \in pairs :
                 /\ Contributions(records[p[1]], records[p[2]]).temporal > 0
                 /\ Contributions(records[p[1]], records[p[2]]).location > 0
                 /\ EdgesBetween(records[p[1]], records[p[2]]) = {}
           /\ \E p \in pairs :
                 /\ ~SharedIdentifier(records[p[1]], records[p[2]])
                 /\ EdgesBetween(records[p[1]], records[p[2]]) # {}

----------------------------------------------------------------------------
\* Claims about the order of the timeline and the gaps of the summary

\* C29: the list generate_timeline returns is in non-decreasing timestamp
\* order, gap events included, and the timestamp of a gap event, 30 minutes
\* after the event before it, is strictly between the timestamps of the
\* events before and after it.
C29_TimelineSortedWithGaps ==
    timeline_calls > 0 =>
        /\ \A i \in 1..(Len(timeline) - 1) :
              timeline[i].timestamp <= timeline[i + 1].timestamp
        /\ \A i \in 1..Len(timeline) :
              IsGapEvent(timeline[i]) =>
                  /\ 1 < i /\ i < Len(timeline)
                  /\ timeline[i].timestamp = timeline[i - 1].timestamp + 30
                  /\ timeline[i - 1].timestamp < timeline[i].timestamp
                  /\ timeline[i].timestamp < timeline[i + 1].timestamp

\* a timeline with a gap, made from records that were not in timestamp order
C29_Witness ==
    /\ timeline_calls > 0
    /\ ~FilterReturnsSameList(time_range)
    /\ \E i \in 1..(Len(caller_records) - 1) :
          caller_records[i].timestamp > caller_records[i + 1].timestamp
    /\ \E i \in 1..Len(timeline) : IsGapEvent(timeline[i])

\* the places of the gap events in the timeline, in order
GapPlaces == SelectSeq([i \in 1..Len(timeline) |-> i], LAMBDA i : IsGapEvent(timeline[i]))

\* C30: every gap interval of the summary made from the timeline starts no
\* earlier than the event before its gap event and ends no later than the
\* event after it.
C30_SummaryGapsInsideSilence ==
    [][summary' # summary =>
          /\ Len(summary'.gaps) = Len(GapPlaces)
          /\ \A k \in 1..Len(GapPlaces) :
                /\ timeline[GapPlaces[k] - 1].timestamp <= summary'.gaps[k][1]
                /\ summary'.gaps[k][2] <= timeline[GapPlaces[k] + 1].timestamp]_vars

====
